---- MODULE Spec2Model ----
(***************************************************************************)
(* Aerodrome auto-balancer: the check cycle of AerodromeAutoBalancer       *)
(* (src/src/index.js) and the rebalance state machine of Rebalancer        *)
(* (src/src/rebalancer.js), with the classification of PositionMonitor.    *)
(* The program is one single-threaded JavaScript flow; pc is the await     *)
(* point (or synchronous statement group) the flow has reached.  Every     *)
(* chain read and every transaction is an input whose outcome the chain    *)
(* chooses.                                                                *)
(***************************************************************************)
EXTENDS Integers, Sequences, FiniteSets, TLC

(* ----------------------------- bounds ---------------------------------- *)
\* largest number of positions one scan returns
MaxPositions == 1

(* ------------------------ program constants ---------------------------- *)
RebalanceThreshold == 20
MinSwapValueUsdc == 20

\* JavaScript null, for variables that otherwise hold an object
NULL == [ null |-> TRUE ]
\* config.gauges[0], and the null a missing gauge address is
Gauge == "gauge0"
NoAddress == "null"

\* inputs the chain can present
Amounts == {0, 50}
Prices == {1, 2, 200}
\* the balances of the wallet after a withdraw; << 1, 0 >> is one raw unit of a token0
\* that has no decimals
WalletBalances == (Amounts \X Amounts) \cup { << 1, 0 >> }
RatioPercents == {20, 80}
PoolTickSpacings == {10, 100}
PositionTicks == {-10, 100, 120, 200}
\* what slot0 and tickSpacing() of one pool show together: a pool of spacing 100 is shown
\* at the tick 200 of its grid, a pool of spacing 10 at the other ticks
PoolStates ==
  { ps \in PositionTicks \X PoolTickSpacings : ps[2] = 100 <=> ps[1] = 200 }
\* what token0() and token1() of the configured gauge return, and another token: a
\* position of another pair is shown only where the auto-stake filter passes it (in range)
GaugeToken0 == "gaugeToken0"
GaugeToken1 == "gaugeToken1"
OtherToken == "otherToken"
\* a position of a pool of spacing 60, far above the pool's tick
BelowRangePosition ==
  [ tickLower |-> -195000, tickUpper |-> -194400, currentTick |-> -196800,
    tickSpacing |-> 60, isStaked |-> FALSE, token0 |-> GaugeToken0, token1 |-> GaugeToken1 ]
\* a staked position is shown only where a branch of checkAndRebalance acts on it: out of
\* range by the threshold or more
PositionInputs ==
  { in \in [tickLower : {0}, tickUpper : {100}, currentTick : PositionTicks,
            tickSpacing : PoolTickSpacings, isStaked : BOOLEAN,
            token0 : {GaugeToken0}, token1 : {GaugeToken1, OtherToken}] :
      /\ << in.currentTick, in.tickSpacing >> \in PoolStates
      /\ in.isStaked => in.currentTick = 120
      /\ in.token1 = OtherToken => in.currentTick = 100 }
    \cup { BelowRangePosition }
\* ticks slot0 can show when the ratio is computed, as an offset from the tick of the scan
TickDrift == {-200, 0, 200}

VARIABLES
  autoRebalance,      \* config.autoRebalance
  isRunning,          \* AerodromeAutoBalancer.isRunning
  isCheckInProgress,  \* AerodromeAutoBalancer.isCheckInProgress
  checkInterval,      \* AerodromeAutoBalancer.checkInterval: a next-check timer is pending
  pc,                 \* where the flow is
  caller,             \* who called swapTokens / createPosition / stakeToGauge
  positions,          \* result of checkAllPositions in this cycle
  idx,                \* index of the running for-loop
  pendingRebalance,   \* Rebalancer.pendingRebalance
  cur,                \* positionInfo of the running rebalance / stake
  newRange,           \* target range of the running rebalance / bootstrap
  amount0, amount1,   \* balances read at checking_balances
  amount0ToAdd, amount1ToAdd,   \* the amounts createPosition is given
  walletRead,         \* history: the balances of the wallet as the running operation last read them
  ratio,              \* result of calculateOptimalRatio
  swapIn,             \* arguments of the running swapTokens
  swapResult,         \* what swapTokens returned
  newTokenId,         \* what createPosition returned
  txlog,              \* history: transactions and deciding static calls of the running operation
  stages,             \* history: the stages assigned to the descriptor of the running rebalance
  invoked,            \* history: positions rebalance() was invoked for in this cycle
  attempts,           \* history: the stakeToGauge and rebalance calls of this cycle's loops, in order
  outcome,            \* history: how the last rebalance() ended
  allowedRouters,     \* config.kyber.allowedRouters
  k_pc,               \* where the aggregator swapTokens is
  attempt,            \* which runSwapAttempt is running (0: none)
  routeData,          \* routerAddress of the route endpoint's answer
  builtSwap,          \* routerAddress of the build endpoint's answer
  receipt,            \* what the aggregator swapTokens returned
  klog,               \* history: requests and transactions of the aggregator swapTokens
  attemptErrors,      \* history: the error each failed runSwapAttempt threw
  called,             \* the function that was called on its own ("none": none yet)
  args,               \* the arguments it was called with
  ret,                \* what it returned
  chain,              \* the wallet's positions as the chain held them at the last scan
  scans               \* history: scans since the chain was last changed from outside

vars == << autoRebalance, isRunning, isCheckInProgress, checkInterval, pc, caller,
           positions, idx, pendingRebalance, cur, newRange, amount0, amount1,
           amount0ToAdd, amount1ToAdd, walletRead, ratio, swapIn, swapResult, newTokenId,
           txlog, stages, invoked, attempts, outcome,
           allowedRouters, k_pc, attempt, routeData, builtSwap, receipt, klog,
           attemptErrors, called, args, ret, chain, scans >>

kyberVars == << allowedRouters, k_pc, attempt, routeData, builtSwap, receipt, klog,
                attemptErrors >>
calcVars == << called, args, ret >>
\* what a step of the bot leaves alone
chainVars == << chain, scans >>
sideVars == << kyberVars, calcVars, chainVars >>
botVars == << autoRebalance, isRunning, isCheckInProgress, checkInterval, pc, caller,
              positions, idx, pendingRebalance, cur, newRange, amount0, amount1,
              amount0ToAdd, amount1ToAdd, walletRead, ratio, swapIn, swapResult, newTokenId,
              txlog, stages, invoked, attempts, outcome >>
cfgVars == << autoRebalance, isRunning >>
rebVars == << amount0, amount1, amount0ToAdd, amount1ToAdd, walletRead, ratio >>
subVars == << swapIn, swapResult, newTokenId >>
cycVars == << isCheckInProgress, checkInterval, positions, invoked, attempts >>

(* --------------------------- pure helpers ------------------------------ *)
Abs(x) == IF x < 0 THEN -x ELSE x

\* Number.prototype.toFixed(2) of num/den * 100, den > 0, num >= 0, in hundredths:
\* round half up of num * 10000 / den, the whole multiples of den taken out first
ToFixed2Percent(num, den) ==
  (num \div den) * 10000 + (2 * (num % den) * 10000 + den) \div (2 * den)

\* PositionMonitor.checkPositionStatus; percentOutOfRange is kept in hundredths of a percent
checkPositionStatus(position, currentTick) ==
  LET tickLower == position.tickLower
      tickUpper == position.tickUpper
      isBelowRange == currentTick < tickLower
      isAboveRange == currentTick > tickUpper
      range == tickUpper - tickLower
  IN [ isInRange |-> ~isBelowRange /\ ~isAboveRange,
       isBelowRange |-> isBelowRange,
       isAboveRange |-> isAboveRange,
       percentOutOfRange |->
         IF isBelowRange THEN ToFixed2Percent(tickLower - currentTick, range)
         ELSE IF isAboveRange THEN ToFixed2Percent(currentTick - tickUpper, range)
         ELSE 0,
       tickLower |-> tickLower,
       tickUpper |-> tickUpper,
       currentTick |-> currentTick ]

\* Math.ceil(a / b) for b > 0
CeilDiv(a, b) == -((-a) \div b)

\* PositionMonitor.calculateNewRange; rangeMultiplier is the rational multNum / multDen
calculateNewRange(currentTick, tickSpacing, multNum, multDen) ==
  LET widthNum == tickSpacing * (30 \div tickSpacing) * multNum
  IN [ tickLower |-> ((currentTick * multDen - widthNum) \div (multDen * tickSpacing)) * tickSpacing,
       tickUpper |-> CeilDiv(currentTick * multDen + widthNum, multDen * tickSpacing) * tickSpacing ]

\* one element of the array checkAllPositions returns
PositionResult(in, id) ==
  LET status == checkPositionStatus(in, in.currentTick)
  IN [ tokenId |-> id,
       token0 |-> in.token0,
       token1 |-> in.token1,
       isStaked |-> in.isStaked,
       gaugeAddress |-> Gauge,
       tickSpacing |-> in.tickSpacing,
       isInRange |-> status.isInRange,
       percentOutOfRange |-> status.percentOutOfRange,
       tickLower |-> status.tickLower,
       tickUpper |-> status.tickUpper,
       currentTick |-> status.currentTick ]

\* the indices of an array, in order: filter keeps the order of the array
Indices(ps) == [i \in 1..Len(ps) |-> i]

\* checkAndRebalance: positions.filter(p => !p.isInRange)
IsOutOfRange(p) == ~p.isInRange
outOfRangePositions(ps) == SelectSeq(Indices(ps), LAMBDA i : IsOutOfRange(ps[i]))

\* the filter of candidates as it would be without the REBALANCE_THRESHOLD comparison
IsCandidateWithoutThreshold(p) == ~p.isInRange

\* checkAndRebalance: outOfRangePositions.filter(percentOut >= threshold)
IsCandidate(p) == ~p.isInRange /\ p.percentOutOfRange >= RebalanceThreshold * 100
rebalanceCandidates(ps) == SelectSeq(Indices(ps), LAMBDA i : IsCandidate(ps[i]))

\* the auto-stake filter as it would be without the isStaked test
IsInRangeWithGauge(p) == p.isInRange /\ p.gaugeAddress # NoAddress

\* checkAndRebalance: positions.filter(p => p.isInRange && !p.isStaked && p.gaugeAddress)
IsUnstakedInRange(p) == p.isInRange /\ ~p.isStaked /\ p.gaugeAddress # NoAddress
unstakedInRangePositions(ps) == SelectSeq(Indices(ps), LAMBDA i : IsUnstakedInRange(ps[i]))

\* the stage a transaction kind belongs to
StageOfTx(kind) ==
  CASE kind = "unstake" -> "unstaking"
    [] kind = "withdraw" -> "withdrawing"
    [] kind \in {"quote", "approve_permit2", "permit2_approve", "swap"} -> "swapping"
    [] kind \in {"approve_token0", "approve_token1", "mint_staticCall", "mint"}
         -> "creating_position"
    [] kind \in {"approve_nft", "deposit"} -> "staking"

StageRank(stage) ==
  CASE stage = "starting" -> 0
    [] stage = "unstaking" -> 1
    [] stage = "withdrawing" -> 2
    [] stage = "checking_balances" -> 3
    [] stage = "calculating_ratio" -> 4
    [] stage = "swapping" -> 5
    [] stage = "creating_position" -> 6
    [] stage = "staking" -> 7

\* the stage recorded in the descriptor when a transaction is submitted
StageNow == IF pendingRebalance = NULL THEN "none" ELSE pendingRebalance.stage

\* a transaction (or a static call that decides the flow) handed to the chain by the
\* running operation; confirmed says whether it succeeded
Tx(kind, confirmed) ==
  [ kind |-> kind, stage |-> StageNow, confirmed |-> confirmed, by |-> caller,
    tokenId |-> IF cur = NULL THEN 0 ELSE cur.tokenId,
    error |-> IF confirmed THEN "none" ELSE "failed" ]

\* how a submitted transaction ends: mined, rejected or reverted, or rejected by the node
\* with the code NONCE_EXPIRED
SendResults == {"confirmed", "failed", "NONCE_EXPIRED"}

\* how a transaction ends whose receipt is awaited with tx.wait() and no timeout: as any
\* send, or the receipt never comes
WaitResults == SendResults \cup {"never"}

\* the log entry of a send that ended with result
Sent(kind, result) ==
  [ Tx(kind, result = "confirmed") EXCEPT !.error = IF result = "confirmed" THEN "none" ELSE result ]

NoRatio == [ token0Ratio |-> 0, token1Ratio |-> 0, inRange |-> FALSE, belowRange |-> FALSE ]
NoSwap == [ tokenIn |-> "none", amountIn |-> 0 ]

(* ------------------------------- Init ---------------------------------- *)

\* the locals of a cycle and the history of a cycle, as they are when no cycle runs
Locals ==
  /\ caller = "none"
  /\ positions = << >>
  /\ idx = 0
  /\ cur = NULL
  /\ newRange = NULL
  /\ amount0 = 0 /\ amount1 = 0 /\ amount0ToAdd = 0 /\ amount1ToAdd = 0
  /\ walletRead = << 0, 0 >>
  /\ ratio = NoRatio
  /\ swapIn = NoSwap
  /\ swapResult = "null"
  /\ newTokenId = 0
  /\ txlog = << >>
  /\ stages = << >>
  /\ invoked = {}
  /\ attempts = << >>
  /\ outcome = "none"

\* the same, as the next state
ResetLocals ==
  /\ caller' = "none"
  /\ positions' = << >>
  /\ idx' = 0
  /\ cur' = NULL
  /\ newRange' = NULL
  /\ amount0' = 0 /\ amount1' = 0 /\ amount0ToAdd' = 0 /\ amount1ToAdd' = 0
  /\ walletRead' = << 0, 0 >>
  /\ ratio' = NoRatio
  /\ swapIn' = NoSwap
  /\ swapResult' = "null"
  /\ newTokenId' = 0
  /\ txlog' = << >>
  /\ stages' = << >>
  /\ invoked' = {}
  /\ attempts' = << >>
  /\ outcome' = "none"

\* no aggregator swapTokens is running
KyberIdle ==
  /\ k_pc = "idle"
  /\ attempt = 0
  /\ routeData = NoAddress /\ builtSwap = NoAddress
  /\ receipt = "none"
  /\ klog = << >>
  /\ attemptErrors = << >>

\* after the constructor and start(): isRunning is set, the first runCheckCycle is about to run
InitBot ==
  /\ autoRebalance \in BOOLEAN
  /\ isRunning = TRUE
  /\ isCheckInProgress = FALSE
  /\ checkInterval = FALSE
  /\ pc = "runCheckCycle"
  /\ pendingRebalance = NULL
  /\ Locals

\* no function has been called on its own
CalcIdle == called = "none" /\ args = << >> /\ ret = NULL

\* nothing has been scanned yet
ChainIdle == chain = << >> /\ scans = 0

Init ==
  /\ InitBot
  /\ allowedRouters = {}
  /\ KyberIdle
  /\ CalcIdle
  /\ ChainIdle

(* --------------------------- the check cycle --------------------------- *)
\* scheduleNextCheck's timer fires
TimerFires ==
  /\ pc = "idle" /\ checkInterval
  /\ checkInterval' = FALSE
  /\ pc' = "runCheckCycle"
  /\ UNCHANGED << sideVars, cfgVars, isCheckInProgress, caller, positions, idx,
                  pendingRebalance, cur, newRange, rebVars, subVars, txlog, stages,
                  invoked, attempts, outcome >>

\* scheduleNextCheck: a timer is set only while the bot is running
scheduleNextCheck == isRunning

\* runCheckCycle as it would be if it set the next timer before awaiting the cycle
RunCheckCycleTimerFirst ==
  /\ pc = "runCheckCycle"
  /\ isCheckInProgress' = TRUE
  /\ checkInterval' = scheduleNextCheck
  /\ pc' = "checkAllPositions"
  /\ UNCHANGED << sideVars, cfgVars, caller, positions, idx, pendingRebalance, cur,
                  newRange, rebVars, subVars, txlog, stages, invoked, attempts, outcome >>

\* runCheckCycle up to the await of checkAndRebalance
RunCheckCycle ==
  /\ pc = "runCheckCycle"
  /\ IF ~isRunning
       THEN pc' = "idle" /\ UNCHANGED << isCheckInProgress, checkInterval >>
       ELSE IF isCheckInProgress
         THEN pc' = "idle" /\ checkInterval' = scheduleNextCheck /\ UNCHANGED isCheckInProgress
         ELSE isCheckInProgress' = TRUE /\ pc' = "checkAllPositions" /\ UNCHANGED checkInterval
  /\ UNCHANGED << sideVars, cfgVars, caller, positions, idx, pendingRebalance, cur,
                  newRange, rebVars, subVars, txlog, stages, invoked, attempts, outcome >>

\* a position as the chain holds it: what a scan reads of it, and (history) how
\* stakeToGauge ended for it since the chain was last changed from outside
ChainPosition(in) ==
  [ tickLower |-> in.tickLower, tickUpper |-> in.tickUpper, currentTick |-> in.currentTick,
    tickSpacing |-> in.tickSpacing, isStaked |-> in.isStaked, token0 |-> in.token0,
    token1 |-> in.token1, lastStake |-> "none" ]

\* checkAndRebalance: await monitor.checkAllPositions resolves with the classified positions
\* the chain holds
CheckAllPositions ==
  /\ pc = "checkAllPositions"
  /\ \E n \in 0..MaxPositions : \E f \in [1..n -> PositionInputs] :
       /\ positions' = [i \in 1..n |-> PositionResult(f[i], i)]
       /\ chain' = [i \in 1..n |-> ChainPosition(f[i])]
  /\ idx' = 1
  /\ pc' = "autoStake"
  /\ UNCHANGED << kyberVars, calcVars, scans, cfgVars, isCheckInProgress, checkInterval,
                  caller, pendingRebalance, cur, newRange, rebVars, subVars, txlog, stages,
                  invoked, attempts, outcome >>

\* positions the scan can miss: staked in the gauge, where a failed read of stakedLength
\* counts as 0
MissedPositions == { ChainPosition(in) : in \in { p \in PositionInputs : p.isStaked } }

\* getUserPositions and checkAllPositions catch the errors of their reads and go on: the
\* scan resolves with no position although the chain holds some
CheckAllPositionsMisses ==
  /\ pc = "checkAllPositions"
  /\ \E n \in 1..MaxPositions : chain' \in [1..n -> MissedPositions]
  /\ positions' = << >>
  /\ idx' = 1
  /\ pc' = "autoStake"
  /\ UNCHANGED << kyberVars, calcVars, scans, cfgVars, isCheckInProgress, checkInterval,
                  caller, pendingRebalance, cur, newRange, rebVars, subVars, txlog, stages,
                  invoked, attempts, outcome >>

\* checkAllPositions lines 98-112: getCurrentPrice and pool.tick() both reject, the two
\* catches only warn, and currentTick keeps the 0 it was declared with
TickUnread(in) == [in EXCEPT !.currentTick = 0]

\* the scan classifies its positions with ticks it could not read (the node rejects the
\* tick reads of that cycle)
CheckAllPositionsTickUnread ==
  /\ pc = "checkAllPositions"
  /\ \E n \in 1..MaxPositions : \E f \in [1..n -> PositionInputs] :
       /\ positions' = [i \in 1..n |-> PositionResult(TickUnread(f[i]), i)]
       /\ chain' = [i \in 1..n |-> ChainPosition(f[i])]
  /\ idx' = 1
  /\ pc' = "autoStake"
  /\ UNCHANGED << kyberVars, calcVars, scans, cfgVars, isCheckInProgress, checkInterval,
                  caller, pendingRebalance, cur, newRange, rebVars, subVars, txlog, stages,
                  invoked, attempts, outcome >>

\* checkAndRebalance: checkAllPositions rejects; the outer catch logs the error
CheckAllPositionsFails ==
  /\ pc = "checkAllPositions"
  /\ pc' = "cycleEnd"
  /\ UNCHANGED << sideVars, cfgVars, cycVars, caller, idx, pendingRebalance, cur,
                  newRange, rebVars, subVars, txlog, stages, outcome >>

\* one call a loop of checkAndRebalance makes for a position
Attempt(op, tokenId) == [ op |-> op, tokenId |-> tokenId ]

\* the auto-stake loop: the next unstaked in-range position, or on to the rebalance branch
AutoStakeLoop ==
  /\ pc = "autoStake"
  /\ LET list == unstakedInRangePositions(positions)
     IN IF idx <= Len(list)
          THEN /\ cur' = positions[list[idx]]
               /\ attempts' = Append(attempts, Attempt("stakeToGauge", positions[list[idx]].tokenId))
               /\ caller' = "autoStake"
               /\ txlog' = << >>
               /\ pc' = "stake_getApproved"
               /\ UNCHANGED idx
          ELSE /\ pc' = "dispatch"
               /\ idx' = 1
               /\ UNCHANGED << cur, caller, txlog, attempts >>
  /\ UNCHANGED << sideVars, cfgVars, isCheckInProgress, checkInterval, positions, invoked,
                  pendingRebalance, newRange, rebVars, subVars, stages, outcome >>

\* checkAndRebalance lines 383-428: which branch runs after auto-staking
Dispatch ==
  /\ pc = "dispatch"
  /\ pc' = IF Len(outOfRangePositions(positions)) > 0
             THEN IF autoRebalance /\ Len(rebalanceCandidates(positions)) > 0
                    THEN "rebalanceLoop"
                    ELSE "cycleEnd"
             ELSE IF Len(positions) = 0 THEN "bootstrap" ELSE "cycleEnd"
  /\ UNCHANGED << sideVars, cfgVars, cycVars, caller, idx, pendingRebalance, cur,
                  newRange, rebVars, subVars, txlog, stages, outcome >>

\* the for-loop over rebalanceCandidates: compute the new range and call rebalance()
RebalanceLoop ==
  /\ pc = "rebalanceLoop"
  /\ LET list == rebalanceCandidates(positions)
     IN IF idx <= Len(list)
          THEN LET position == positions[list[idx]]
               IN /\ cur' = position
                  /\ newRange' = calculateNewRange(position.currentTick, position.tickSpacing, 26, 10)
                  /\ invoked' = invoked \cup {position.tokenId}
                  /\ attempts' = Append(attempts, Attempt("rebalance", position.tokenId))
                  /\ caller' = "rebalance"
                  /\ pc' = "r_begin"
          ELSE /\ pc' = "cycleEnd"
               /\ UNCHANGED << cur, newRange, invoked, attempts, caller >>
  /\ UNCHANGED << sideVars, cfgVars, isCheckInProgress, checkInterval, positions, idx,
                  pendingRebalance, rebVars, subVars, txlog, stages, outcome >>

\* runCheckCycle's finally: release the latch and schedule the next check
CycleEnd ==
  /\ pc = "cycleEnd"
  /\ isCheckInProgress' = FALSE
  /\ checkInterval' = scheduleNextCheck
  /\ pc' = "idle"
  /\ ResetLocals
  /\ UNCHANGED << sideVars, cfgVars, pendingRebalance >>

(* ---------------------- Rebalancer.rebalance --------------------------- *)
\* the descriptor with its stage advanced
AtStage(stage) == [pendingRebalance EXCEPT !.stage = stage]

\* rebalance lines 179-188: store the descriptor, stage 'starting'
RebalanceBegin ==
  /\ pc = "r_begin"
  /\ pendingRebalance' = [ tokenId |-> cur.tokenId,
                           gaugeAddress |-> cur.gaugeAddress,
                           tickLower |-> newRange.tickLower,
                           tickUpper |-> newRange.tickUpper,
                           stage |-> "starting" ]
  /\ stages' = << "starting" >>
  /\ txlog' = << >>
  /\ outcome' = "running"
  /\ swapResult' = "null" /\ newTokenId' = 0
  /\ pc' = "r_started"
  /\ UNCHANGED << sideVars, cfgVars, cycVars, caller, idx, cur, newRange, rebVars,
                  swapIn >>

\* lines 190-206 as they would be with the isStaked test left out
RebalanceStartedIgnoringStaked ==
  /\ pc = "r_started"
  /\ IF cur.gaugeAddress # NoAddress
       THEN /\ pendingRebalance' = AtStage("unstaking")
            /\ stages' = Append(stages, "unstaking")
            /\ pc' = "r_unstake"
       ELSE /\ pendingRebalance' = AtStage("withdrawing")
            /\ stages' = Append(stages, "withdrawing")
            /\ pc' = "r_multicall"
  /\ UNCHANGED << sideVars, cfgVars, cycVars, caller, idx, cur, newRange, rebVars,
                  subVars, txlog, outcome >>

\* rebalance lines 190-206: enter 'unstaking' when staked with a gauge, else 'withdrawing'
RebalanceStarted ==
  /\ pc = "r_started"
  /\ IF cur.isStaked /\ cur.gaugeAddress # NoAddress
       THEN /\ pendingRebalance' = AtStage("unstaking")
            /\ stages' = Append(stages, "unstaking")
            /\ pc' = "r_unstake"
       ELSE /\ pendingRebalance' = AtStage("withdrawing")
            /\ stages' = Append(stages, "withdrawing")
            /\ pc' = "r_multicall"
  /\ UNCHANGED << sideVars, cfgVars, cycVars, caller, idx, cur, newRange, rebVars,
                  subVars, txlog, outcome >>

\* the unstake as it would be without the try/catch of lines 194-201: a failure aborts
UnstakeFromGaugeUncaught ==
  /\ pc = "r_unstake"
  /\ \E confirmed \in BOOLEAN :
       /\ txlog' = Append(txlog, Tx("unstake", confirmed))
       /\ IF confirmed
            THEN /\ pendingRebalance' = AtStage("withdrawing")
                 /\ stages' = Append(stages, "withdrawing")
                 /\ pc' = "r_multicall"
            ELSE /\ pc' = "r_throw"
                 /\ UNCHANGED << pendingRebalance, stages >>
  /\ UNCHANGED << sideVars, cfgVars, cycVars, caller, idx, cur, newRange, rebVars,
                  subVars, outcome >>

\* unstakeFromGauge (lines 780-794) inside the try/catch of lines 194-201:
\* gauge.withdraw is sent; confirmed or not, the rebalance goes on to 'withdrawing'
UnstakeFromGauge ==
  /\ pc = "r_unstake"
  /\ \E result \in WaitResults :
       /\ txlog' = Append(txlog, Sent("unstake", result))
       /\ IF result = "never"
            THEN pc' = "hung" /\ UNCHANGED << pendingRebalance, stages >>
            ELSE /\ pendingRebalance' = AtStage("withdrawing")
                 /\ stages' = Append(stages, "withdrawing")
                 /\ pc' = "r_multicall"
  /\ UNCHANGED << sideVars, cfgVars, cycVars, caller, idx, cur, newRange, rebVars,
                  subVars, outcome >>

\* the multicall as it would be if its failure were swallowed and the rebalance went on
MulticallUnchecked ==
  /\ pc = "r_multicall"
  /\ \E confirmed \in BOOLEAN : txlog' = Append(txlog, Tx("withdraw", confirmed))
  /\ pendingRebalance' = AtStage("checking_balances")
  /\ stages' = Append(stages, "checking_balances")
  /\ pc' = "r_balanceOf"
  /\ UNCHANGED << sideVars, cfgVars, cycVars, caller, idx, cur, newRange, rebVars,
                  subVars, outcome >>

\* rebalance lines 245-255: pm.multicall([decreaseLiquidity, collect, burn]) and tx.wait
Multicall ==
  /\ pc = "r_multicall"
  /\ \E result \in WaitResults :
       /\ txlog' = Append(txlog, Sent("withdraw", result))
       /\ IF result = "confirmed"
            THEN /\ pendingRebalance' = AtStage("checking_balances")
                 /\ stages' = Append(stages, "checking_balances")
                 /\ pc' = "r_balanceOf"
            ELSE /\ pc' = IF result = "never" THEN "hung" ELSE "r_throw"
                 /\ UNCHANGED << pendingRebalance, stages >>
  /\ UNCHANGED << sideVars, cfgVars, cycVars, caller, idx, cur, newRange, rebVars,
                  subVars, outcome >>

\* rebalance lines 268-290: the wallet balances are read
ReadBalances ==
  /\ pc = "r_balanceOf"
  /\ \E b \in WalletBalances :
       /\ amount0' = b[1] /\ amount1' = b[2]
       /\ amount0ToAdd' = b[1] /\ amount1ToAdd' = b[2]
       /\ walletRead' = b
  /\ pendingRebalance' = AtStage("calculating_ratio")
  /\ stages' = Append(stages, "calculating_ratio")
  /\ pc' = "r_ratio"
  /\ UNCHANGED << sideVars, cfgVars, cycVars, caller, idx, cur, newRange, ratio, subVars,
                  txlog, outcome >>

\* a chain read of rebalance() itself rejects (balances, slot0, decimals): rebalance throws
ReadFails ==
  /\ pc \in {"r_balanceOf", "r_ratio", "r_slot0", "r_newBalances"}
  /\ pc' = "r_throw"
  /\ UNCHANGED << sideVars, cfgVars, cycVars, caller, idx, pendingRebalance, cur,
                  newRange, rebVars, subVars, txlog, stages, outcome >>

\* the ratio the floating-point formula yields when it divides by zero
NaN == -1

\* calculateOptimalRatio lines 94-155, the ratios in percent; fraction is the value share of
\* token0 which the formula of lines 108-140 yields strictly inside the range. On the
\* boundaries the formula is followed with sqrtPriceCurrent equal to the boundary's sqrt
\* price: at tickUpper amount0PerAmount1Raw is 0, at tickLower its divisor is 0
calculateOptimalRatio(currentTick, tickLower, tickUpper, fraction) ==
  IF currentTick < tickLower
    THEN [ token0Ratio |-> 100, token1Ratio |-> 0, inRange |-> FALSE, belowRange |-> TRUE ]
  ELSE IF currentTick > tickUpper
    THEN [ token0Ratio |-> 0, token1Ratio |-> 100, inRange |-> FALSE, belowRange |-> FALSE ]
  ELSE IF currentTick = tickLower
    THEN [ token0Ratio |-> NaN, token1Ratio |-> IF tickLower = tickUpper THEN NaN ELSE 0,
           inRange |-> TRUE, belowRange |-> FALSE, currentTick |-> currentTick ]
  ELSE IF currentTick = tickUpper
    THEN [ token0Ratio |-> 0, token1Ratio |-> 100, inRange |-> TRUE, belowRange |-> FALSE,
           currentTick |-> currentTick ]
  ELSE [ token0Ratio |-> fraction, token1Ratio |-> 100 - fraction,
         inRange |-> TRUE, belowRange |-> FALSE, currentTick |-> currentTick ]

\* rebalance lines 292-297: slot0 is read again, the ratio computed, stage 'swapping'
ComputeRatio ==
  /\ pc = "r_ratio"
  /\ \E drift \in TickDrift, fraction \in RatioPercents :
       ratio' = calculateOptimalRatio(chain[cur.tokenId].currentTick + drift, newRange.tickLower,
                                      newRange.tickUpper, fraction)
  /\ pendingRebalance' = AtStage("swapping")
  /\ stages' = Append(stages, "swapping")
  /\ pc' = "r_plan"
  /\ UNCHANGED << sideVars, cfgVars, cycVars, caller, idx, cur, newRange, amount0,
                  amount1, amount0ToAdd, amount1ToAdd, walletRead, subVars, txlog, outcome >>

\* Number.prototype.toFixed(0) of n / d for n >= 0, d > 0, then parseUnits with 0 decimals
RoundDiv(n, d) == (2 * n + d) \div (2 * d)

\* rebalance lines 358-376, times 100: token0Diff = amount0 * price - total * token0Ratio
token0Diff100(a0, a1, price, token0Ratio) ==
  LET amount0InToken1 == a0 * price
      totalInToken1 == amount0InToken1 + a1
  IN 100 * amount0InToken1 - totalInToken1 * token0Ratio

\* the comparison with MIN_SWAP_VALUE_USDC as it would be if it were not strict
exceedsMinSwapInclusive(diff, token0Ratio) ==
  token0Ratio # NaN /\ Abs(diff) >= 100 * MinSwapValueUsdc

\* Math.abs(token0Diff) > minSwapValueUsdc, times 100; the difference is NaN, and the
\* comparison false, when the ratio is NaN
exceedsMinSwap(diff, token0Ratio) ==
  token0Ratio # NaN /\ Abs(diff) > 100 * MinSwapValueUsdc

\* the swap stage is over: the balances read before it and the ratio are used no more
\* (amount0ToAdd and amount1ToAdd carry the amounts on)
PlanLocalsDead == amount0' = 0 /\ amount1' = 0 /\ ratio' = NoRatio

\* createPosition called with the stage not yet advanced to 'creating_position'
EnterCreatePositionStageLate ==
  /\ pc' = "cp_pool"
  /\ PlanLocalsDead
  /\ UNCHANGED << pendingRebalance, stages >>

\* createPosition is called by rebalance(): lines 431-440
EnterCreatePosition ==
  /\ pendingRebalance' = AtStage("creating_position")
  /\ stages' = Append(stages, "creating_position")
  /\ pc' = "cp_pool"
  /\ PlanLocalsDead

\* the out-of-range swap reversed: the token the new range needs is sold
outOfRangeSwapOpposite(belowRange, a0, a1) ==
  IF belowRange THEN [ tokenIn |-> "token0", amountIn |-> a0 ]
                ELSE [ tokenIn |-> "token1", amountIn |-> a1 ]

\* rebalance lines 302-342: below the range all of token1 is swapped into token0
\* (swapTokens(token1, token0, amount1)), above it all of token0 into token1
outOfRangeSwap(belowRange, a0, a1) ==
  IF belowRange THEN [ tokenIn |-> "token1", amountIn |-> a1 ]
                ELSE [ tokenIn |-> "token0", amountIn |-> a0 ]

\* rebalance lines 299-351: out of range, swap all of the unneeded token; in range, read slot0
SwapPlan ==
  /\ pc = "r_plan"
  /\ IF ~ratio.inRange
       THEN LET swap == outOfRangeSwap(ratio.belowRange, amount0, amount1)
            IN IF swap.amountIn > 0
                 THEN /\ swapIn' = swap
                      /\ pc' = "sw_enter"
                      /\ UNCHANGED << pendingRebalance, stages, amount0, amount1, ratio >>
                 ELSE /\ EnterCreatePosition
                      /\ UNCHANGED swapIn
       ELSE /\ pc' = "r_slot0"
            /\ UNCHANGED << pendingRebalance, stages, swapIn, amount0, amount1, ratio >>
  /\ UNCHANGED << sideVars, cfgVars, cycVars, caller, idx, cur, newRange, amount0ToAdd,
                  amount1ToAdd, walletRead, swapResult, newTokenId, txlog, outcome >>

\* rebalance lines 351-429: in range, swap the excess value when it exceeds MIN_SWAP_VALUE_USDC
SwapPlanInRange ==
  /\ pc = "r_slot0"
  /\ \E price \in Prices :
       LET diff == token0Diff100(amount0, amount1, price, ratio.token0Ratio)
       IN IF exceedsMinSwap(diff, ratio.token0Ratio)
            THEN /\ swapIn' = IF diff > 0
                                THEN [ tokenIn |-> "token0", amountIn |-> RoundDiv(diff, 100 * price) ]
                                ELSE [ tokenIn |-> "token1", amountIn |-> RoundDiv(-diff, 100) ]
                 /\ pc' = "sw_enter"
                 /\ UNCHANGED << pendingRebalance, stages, amount0, amount1, ratio >>
            ELSE /\ EnterCreatePosition
                 /\ UNCHANGED swapIn
  /\ UNCHANGED << sideVars, cfgVars, cycVars, caller, idx, cur, newRange, amount0ToAdd,
                  amount1ToAdd, walletRead, swapResult, newTokenId, txlog, outcome >>

\* the return of swapTokens as it would be handled without the null test
AfterSwapUnchecked ==
  /\ pc = "r_afterSwap"
  /\ pc' = "r_newBalances"
  /\ swapIn' = NoSwap
  /\ PlanLocalsDead
  /\ UNCHANGED << sideVars, cfgVars, cycVars, caller, idx, pendingRebalance, cur,
                  newRange, amount0ToAdd, amount1ToAdd, walletRead, swapResult, newTokenId, txlog,
                  stages, outcome >>

\* rebalance lines 309-321 (and 328, 389, 410): a receipt goes on, null aborts before the mint
AfterSwap ==
  /\ pc = "r_afterSwap"
  /\ pc' = IF swapResult = "receipt" THEN "r_newBalances" ELSE "r_throw"
  /\ swapIn' = NoSwap
  /\ PlanLocalsDead
  /\ UNCHANGED << sideVars, cfgVars, cycVars, caller, idx, pendingRebalance, cur,
                  newRange, amount0ToAdd, amount1ToAdd, walletRead, swapResult, newTokenId, txlog,
                  stages, outcome >>

\* the read after the swap as it would be if the new balances were only logged
ReadNewBalancesNotTaken ==
  /\ pc = "r_newBalances"
  /\ \E a0 \in Amounts, a1 \in Amounts : walletRead' = << a0, a1 >>
  /\ EnterCreatePosition
  /\ UNCHANGED << sideVars, cfgVars, cycVars, caller, idx, cur, newRange, amount0ToAdd,
                  amount1ToAdd, subVars, txlog, outcome >>

\* rebalance lines 313-316: both balances are read again after the swap
ReadNewBalances ==
  /\ pc = "r_newBalances"
  /\ \E a0 \in Amounts, a1 \in Amounts :
       amount0ToAdd' = a0 /\ amount1ToAdd' = a1 /\ walletRead' = << a0, a1 >>
  /\ EnterCreatePosition
  /\ UNCHANGED << sideVars, cfgVars, cycVars, caller, idx, cur, newRange, subVars, txlog,
                  outcome >>

(* ---------------------- Rebalancer.swapTokens -------------------------- *)
\* where swapTokens returns to
SwapReturn == IF caller = "rebalance" THEN "r_afterSwap" ELSE "b_afterSwap"

\* swapTokens lines 497-500: amountIn 0 returns null at once
SwapTokensEnter ==
  /\ pc = "sw_enter"
  /\ IF swapIn.amountIn = 0
       THEN swapResult' = "null" /\ pc' = SwapReturn
       ELSE swapResult' = "null" /\ pc' = "sw_quote"
  /\ UNCHANGED << sideVars, cfgVars, cycVars, caller, idx, pendingRebalance, cur,
                  newRange, rebVars, swapIn, newTokenId, txlog, stages, outcome >>

\* swapTokens lines 509-546: tickSpacing, the quoter's static call, PERMIT2
SwapQuote ==
  /\ pc = "sw_quote"
  /\ \E ok \in BOOLEAN :
       /\ txlog' = Append(txlog, Tx("quote", ok))
       /\ pc' = IF ok THEN "sw_approveToken" ELSE SwapReturn
  /\ UNCHANGED << sideVars, cfgVars, cycVars, caller, idx, pendingRebalance, cur,
                  newRange, rebVars, subVars, stages, outcome >>

\* Web3Manager.approveToken / a Permit2 or NFT approval: the allowance is already enough,
\* or an approve transaction is sent, which is confirmed or not
ApprovalCases == {"sufficient", "approved", "failed"}
Approval(kind, case) ==
  IF case = "sufficient" THEN txlog ELSE Append(txlog, Tx(kind, case = "approved"))

\* swapTokens line 549: approveToken(tokenIn, permit2)
SwapApproveToken ==
  /\ pc = "sw_approveToken"
  /\ \E case \in ApprovalCases :
       /\ txlog' = Approval("approve_permit2", case)
       /\ pc' = IF case = "failed" THEN SwapReturn ELSE "sw_permit2"
  /\ UNCHANGED << sideVars, cfgVars, cycVars, caller, idx, pendingRebalance, cur,
                  newRange, rebVars, subVars, stages, outcome >>

\* swapTokens lines 562-571: Permit2 allowance for the router
SwapApprovePermit2 ==
  /\ pc = "sw_permit2"
  /\ \E case \in ApprovalCases :
       /\ txlog' = Approval("permit2_approve", case)
       /\ pc' = IF case = "failed" THEN SwapReturn ELSE "sw_send"
  /\ UNCHANGED << sideVars, cfgVars, cycVars, caller, idx, pendingRebalance, cur,
                  newRange, rebVars, subVars, stages, outcome >>

\* swapTokens lines 608-621: the swap is sent; NONCE_EXPIRED resets the nonce and sends again
SwapSend ==
  /\ pc = "sw_send"
  /\ \E result \in SendResults :
       /\ txlog' = Append(txlog, Sent("swap", result))
       /\ swapResult' = IF result = "confirmed" THEN "receipt" ELSE "null"
       /\ pc' = IF result = "NONCE_EXPIRED" THEN "sw_resend" ELSE SwapReturn
  /\ UNCHANGED << sideVars, cfgVars, cycVars, caller, idx, pendingRebalance, cur,
                  newRange, rebVars, swapIn, newTokenId, stages, outcome >>

\* swapTokens line 620: the one resend after the nonce reset
SwapResend ==
  /\ pc = "sw_resend"
  /\ \E confirmed \in BOOLEAN :
       /\ txlog' = Append(txlog, Tx("swap", confirmed))
       /\ swapResult' = IF confirmed THEN "receipt" ELSE "null"
  /\ pc' = SwapReturn
  /\ UNCHANGED << sideVars, cfgVars, cycVars, caller, idx, pendingRebalance, cur,
                  newRange, rebVars, swapIn, newTokenId, stages, outcome >>

(* --------------------- Rebalancer.createPosition ----------------------- *)
\* where createPosition returns to
CreateReturn == IF caller = "rebalance" THEN "r_afterMint" ELSE "b_afterMint"

\* the tokenId the position manager gives the minted position
MintedTokenId == cur.tokenId + 100

\* createPosition lines 655-658: fee and tickSpacing are read; a failure returns null
CreatePositionPool ==
  /\ pc = "cp_pool"
  /\ \E ok \in BOOLEAN : pc' = IF ok THEN "cp_approve0" ELSE CreateReturn
  /\ newTokenId' = 0
  /\ UNCHANGED << sideVars, cfgVars, cycVars, caller, idx, pendingRebalance, cur,
                  newRange, rebVars, swapIn, swapResult, txlog, stages, outcome >>

\* createPosition line 668: approveToken(token0, positionManager)
CreatePositionApprove0 ==
  /\ pc = "cp_approve0"
  /\ \E case \in ApprovalCases :
       /\ txlog' = Approval("approve_token0", case)
       /\ pc' = IF case = "failed" THEN CreateReturn ELSE "cp_approve1"
  /\ UNCHANGED << sideVars, cfgVars, cycVars, caller, idx, pendingRebalance, cur,
                  newRange, rebVars, subVars, stages, outcome >>

\* createPosition line 669: approveToken(token1, positionManager)
CreatePositionApprove1 ==
  /\ pc = "cp_approve1"
  /\ \E case \in ApprovalCases :
       /\ txlog' = Approval("approve_token1", case)
       /\ pc' = IF case = "failed" THEN CreateReturn ELSE "cp_staticCall"
  /\ UNCHANGED << sideVars, cfgVars, cycVars, caller, idx, pendingRebalance, cur,
                  newRange, rebVars, subVars, stages, outcome >>

\* createPosition lines 707-721: pm.mint.staticCall; a revert returns null
CreatePositionStaticCall ==
  /\ pc = "cp_staticCall"
  /\ \E ok \in BOOLEAN :
       /\ txlog' = Append(txlog, Tx("mint_staticCall", ok))
       /\ pc' = IF ok THEN "cp_mint" ELSE CreateReturn
  /\ UNCHANGED << sideVars, cfgVars, cycVars, caller, idx, pendingRebalance, cur,
                  newRange, rebVars, subVars, stages, outcome >>

\* the mint as it would be if a failed send were sent again
CreatePositionMintRetried ==
  /\ pc = "cp_mint"
  /\ \E result \in {"tokenId", "no_event", "failed", "NONCE_EXPIRED"} :
       /\ txlog' = Append(txlog, Sent("mint", IF result \in {"tokenId", "no_event"}
                                                 THEN "confirmed" ELSE result))
       /\ newTokenId' = IF result = "tokenId" THEN MintedTokenId ELSE 0
       /\ pc' = IF result = "failed" THEN "cp_mint" ELSE CreateReturn
  /\ UNCHANGED << sideVars, cfgVars, cycVars, caller, idx, pendingRebalance, cur,
                  newRange, rebVars, swapIn, swapResult, stages, outcome >>

\* createPosition lines 723-774: the mint is sent once; the tokenId comes from the receipt's
\* events, and null is returned when the send fails or no event names a tokenId
CreatePositionMint ==
  /\ pc = "cp_mint"
  /\ \E result \in {"tokenId", "no_event", "failed", "NONCE_EXPIRED"} :
       /\ txlog' = Append(txlog, Sent("mint", IF result \in {"tokenId", "no_event"}
                                                 THEN "confirmed" ELSE result))
       /\ newTokenId' = IF result = "tokenId" THEN MintedTokenId ELSE 0
  /\ pc' = CreateReturn
  /\ UNCHANGED << sideVars, cfgVars, cycVars, caller, idx, pendingRebalance, cur,
                  newRange, rebVars, swapIn, swapResult, stages, outcome >>

\* rebalance lines 442-456: no tokenId throws; else stage 'staking' when there is a gauge;
\* the amounts createPosition was given decide nothing from here on
AfterMint ==
  /\ pc = "r_afterMint"
  /\ IF newTokenId = 0
       THEN pc' = "r_throw" /\ UNCHANGED << pendingRebalance, stages >>
       ELSE IF cur.gaugeAddress # NoAddress
         THEN /\ pendingRebalance' = AtStage("staking")
              /\ stages' = Append(stages, "staking")
              /\ pc' = "stake_getApproved"
         ELSE pc' = "r_done" /\ UNCHANGED << pendingRebalance, stages >>
  /\ amount0ToAdd' = 0 /\ amount1ToAdd' = 0
  /\ walletRead' = << 0, 0 >>
  /\ UNCHANGED << sideVars, cfgVars, cycVars, caller, idx, cur, newRange, amount0,
                  amount1, ratio, subVars, txlog, outcome >>

(* ---------------------- Rebalancer.stakeToGauge ------------------------ *)
\* where stakeToGauge returns to, or where its exception is caught: rebalance lines 455-461,
\* checkAndRebalance lines 374-379, checkAndCreatePositionFromWallet lines 331-337
StakeReturn ==
  CASE caller = "rebalance" -> "r_done"
    [] caller = "autoStake" -> "autoStake"
    [] OTHER -> "cycleEnd"
StakeReturnIdx == IF caller = "autoStake" THEN idx + 1 ELSE idx

\* stakeToGauge lines 810-811: pm.getApproved(tokenId)
StakeGetApproved ==
  /\ pc = "stake_getApproved"
  /\ \E result \in {"approved", "not_approved", "fails"} :
       IF result = "fails"
         THEN pc' = StakeReturn /\ idx' = StakeReturnIdx
         ELSE /\ pc' = IF result = "approved" THEN "stake_deposit" ELSE "stake_approve"
              /\ UNCHANGED idx
  /\ UNCHANGED << sideVars, cfgVars, cycVars, caller, pendingRebalance, cur, newRange,
                  rebVars, subVars, txlog, stages, outcome >>

\* stakeToGauge lines 813-816: pm.approve(gauge, tokenId)
StakeApprove ==
  /\ pc = "stake_approve"
  /\ \E confirmed \in BOOLEAN :
       /\ txlog' = Append(txlog, Tx("approve_nft", confirmed))
       /\ IF confirmed
            THEN pc' = "stake_deposit" /\ UNCHANGED idx
            ELSE pc' = StakeReturn /\ idx' = StakeReturnIdx
  /\ UNCHANGED << sideVars, cfgVars, cycVars, caller, pendingRebalance, cur, newRange,
                  rebVars, subVars, stages, outcome >>

\* the deposit as it would end without the try/catch of rebalance lines 455-461
StakeDepositUncaught ==
  /\ pc = "stake_deposit"
  /\ \E confirmed \in BOOLEAN :
       /\ txlog' = Append(txlog, Tx("deposit", confirmed))
       /\ pc' = IF ~confirmed /\ caller = "rebalance" THEN "r_throw" ELSE StakeReturn
  /\ idx' = StakeReturnIdx
  /\ UNCHANGED << sideVars, cfgVars, cycVars, caller, pendingRebalance, cur, newRange,
                  rebVars, subVars, stages, outcome >>

\* stakeToGauge lines 825-829: gauge.deposit(tokenId)
StakeDeposit ==
  /\ pc = "stake_deposit"
  /\ \E result \in WaitResults :
       /\ txlog' = Append(txlog, Sent("deposit", result))
       /\ IF result = "never"
            THEN pc' = "hung" /\ UNCHANGED idx
            ELSE pc' = StakeReturn /\ idx' = StakeReturnIdx
  /\ UNCHANGED << sideVars, cfgVars, cycVars, caller, pendingRebalance, cur, newRange,
                  rebVars, subVars, stages, outcome >>

(* ------------------ how Rebalancer.rebalance ends ---------------------- *)
\* rebalance lines 464-476: clear the descriptor and return success; back in the loop of
\* checkAndRebalance
RebalanceDone ==
  /\ pc = "r_done"
  /\ pendingRebalance' = NULL
  /\ outcome' = "success"
  /\ pc' = "rebalanceLoop"
  /\ idx' = idx + 1
  /\ amount0' = 0 /\ amount1' = 0 /\ amount0ToAdd' = 0 /\ amount1ToAdd' = 0
  /\ walletRead' = << 0, 0 >>
  /\ ratio' = NoRatio
  /\ UNCHANGED << sideVars, cfgVars, cycVars, caller, cur, newRange, subVars, txlog,
                  stages >>

\* the rethrown error as it would end the loop without the try/catch of checkAndRebalance
\* lines 411-415
RebalanceThrowUncaught ==
  /\ pc = "r_throw"
  /\ outcome' = "failed"
  /\ pc' = "cycleEnd"
  /\ amount0' = 0 /\ amount1' = 0 /\ amount0ToAdd' = 0 /\ amount1ToAdd' = 0
  /\ walletRead' = << 0, 0 >>
  /\ ratio' = NoRatio
  /\ UNCHANGED << sideVars, cfgVars, cycVars, caller, idx, pendingRebalance, cur, newRange,
                  subVars, txlog, stages >>

\* rebalance lines 478-482: the catch logs and rethrows; checkAndRebalance lines 413-415
\* catch the error and go on with the next candidate
RebalanceThrow ==
  /\ pc = "r_throw"
  /\ outcome' = "failed"
  /\ pc' = "rebalanceLoop"
  /\ idx' = idx + 1
  /\ amount0' = 0 /\ amount1' = 0 /\ amount0ToAdd' = 0 /\ amount1ToAdd' = 0
  /\ walletRead' = << 0, 0 >>
  /\ ratio' = NoRatio
  /\ UNCHANGED << sideVars, cfgVars, cycVars, caller, pendingRebalance, cur, newRange,
                  subVars, txlog, stages >>

(* --------- AerodromeAutoBalancer.checkAndCreatePositionFromWallet ------ *)
\* the wallet in place of a position: what createPosition and stakeToGauge are given
WalletPosition(tick, spacing) ==
  [ tokenId |-> 0, isStaked |-> FALSE, gaugeAddress |-> Gauge, tickSpacing |-> spacing,
    isInRange |-> TRUE, percentOutOfRange |-> 0, tickLower |-> 0, tickUpper |-> 0,
    currentTick |-> tick ]

\* index.js lines 227-229: both ends of the bootstrap range are rounded down
bootstrapRange(currentTick, tickSpacing, multNum, multDen) ==
  LET widthNum == tickSpacing * (30 \div tickSpacing) * multNum
  IN [ tickLower |-> ((currentTick * multDen - widthNum) \div (multDen * tickSpacing)) * tickSpacing,
       tickUpper |-> ((currentTick * multDen + widthNum) \div (multDen * tickSpacing)) * tickSpacing ]

\* index.js lines 194-212: the balances are read; nothing to deposit ends the cycle
BootstrapBalances ==
  /\ pc = "bootstrap"
  /\ caller' = "bootstrap"
  /\ txlog' = << >>
  /\ swapResult' = "null" /\ newTokenId' = 0
  /\ \E b0 \in Amounts, b1 \in Amounts :
       LET hasBalance0 == b0 > 0
           hasBalance1 == b1 > 0
       IN IF ~hasBalance0 /\ ~hasBalance1
            THEN pc' = "cycleEnd" /\ UNCHANGED << amount0, amount1, amount0ToAdd, amount1ToAdd, walletRead >>
            ELSE /\ amount0' = b0 /\ amount1' = b1
                 /\ amount0ToAdd' = b0 /\ amount1ToAdd' = b1
                 /\ walletRead' = << b0, b1 >>
                 /\ pc' = "b_slot0"
  /\ UNCHANGED << sideVars, cfgVars, cycVars, idx, pendingRebalance, cur, newRange, ratio,
                  swapIn, stages, outcome >>

\* index.js lines 344-347: a chain read of the bootstrap rejects; the catch logs the error
BootstrapFails ==
  /\ pc \in {"bootstrap", "b_slot0", "b_ratio", "b_newBalances"}
  /\ pc' = "cycleEnd"
  /\ amount0' = 0 /\ amount1' = 0 /\ amount0ToAdd' = 0 /\ amount1ToAdd' = 0
  /\ walletRead' = << 0, 0 >>
  /\ ratio' = NoRatio
  /\ UNCHANGED << sideVars, cfgVars, cycVars, caller, idx, pendingRebalance, cur,
                  newRange, subVars, txlog, stages, outcome >>

\* index.js lines 217-229: slot0 is read and the range computed around the current tick
BootstrapRange ==
  /\ pc = "b_slot0"
  /\ \E ps \in PoolStates :
       /\ cur' = WalletPosition(ps[1], ps[2])
       /\ newRange' = bootstrapRange(ps[1], ps[2], 26, 10)
  /\ pc' = "b_ratio"
  /\ UNCHANGED << sideVars, cfgVars, cycVars, caller, idx, pendingRebalance, rebVars,
                  subVars, txlog, stages, outcome >>

\* index.js lines 234-314: the ratio, the value difference and the swap it asks for
BootstrapPlan ==
  /\ pc = "b_ratio"
  /\ \E drift \in TickDrift, fraction \in RatioPercents, price \in Prices :
       LET r == calculateOptimalRatio(cur.currentTick + drift, newRange.tickLower,
                                      newRange.tickUpper, fraction)
           diff == token0Diff100(amount0, amount1, price, r.token0Ratio)
       IN /\ ratio' = IF exceedsMinSwap(diff, r.token0Ratio) THEN r ELSE NoRatio
          /\ IF exceedsMinSwap(diff, r.token0Ratio)
               THEN /\ swapIn' = IF diff > 0
                                   THEN [ tokenIn |-> "token0", amountIn |-> RoundDiv(diff, 100 * price) ]
                                   ELSE [ tokenIn |-> "token1", amountIn |-> RoundDiv(-diff, 100) ]
                    /\ pc' = "sw_enter"
                    /\ UNCHANGED << amount0, amount1 >>
               ELSE /\ pc' = "cp_pool"
                    /\ amount0' = 0 /\ amount1' = 0
                    /\ UNCHANGED swapIn
  /\ UNCHANGED << sideVars, cfgVars, cycVars, caller, idx, pendingRebalance, cur,
                  newRange, amount0ToAdd, amount1ToAdd, walletRead, swapResult, newTokenId, txlog,
                  stages, outcome >>

\* index.js lines 269-284 (and 293-308): a receipt goes on, null ends the bootstrap
BootstrapAfterSwap ==
  /\ pc = "b_afterSwap"
  /\ pc' = IF swapResult = "receipt" THEN "b_newBalances" ELSE "cycleEnd"
  /\ swapIn' = NoSwap
  /\ PlanLocalsDead
  /\ UNCHANGED << sideVars, cfgVars, cycVars, caller, idx, pendingRebalance, cur,
                  newRange, amount0ToAdd, amount1ToAdd, walletRead, swapResult, newTokenId, txlog,
                  stages, outcome >>

\* index.js lines 273-278: both balances are read again, then createPosition is called
BootstrapNewBalances ==
  /\ pc = "b_newBalances"
  /\ \E a0 \in Amounts, a1 \in Amounts :
       amount0ToAdd' = a0 /\ amount1ToAdd' = a1 /\ walletRead' = << a0, a1 >>
  /\ pc' = "cp_pool"
  /\ UNCHANGED << sideVars, cfgVars, cycVars, caller, idx, pendingRebalance, cur,
                  newRange, amount0, amount1, ratio, subVars, txlog, stages, outcome >>

\* index.js lines 324-343: a created position is staked in the gauge of the pool
BootstrapAfterMint ==
  /\ pc = "b_afterMint"
  /\ pc' = IF newTokenId # 0 /\ cur.gaugeAddress # NoAddress THEN "stake_getApproved" ELSE "cycleEnd"
  /\ amount0' = 0 /\ amount1' = 0 /\ amount0ToAdd' = 0 /\ amount1ToAdd' = 0
  /\ walletRead' = << 0, 0 >>
  /\ ratio' = NoRatio
  /\ UNCHANGED << sideVars, cfgVars, cycVars, caller, idx, pendingRebalance, cur,
                  newRange, subVars, txlog, stages, outcome >>

(* ------------------------- the specification --------------------------- *)
(* ------------------------------ shutdown ------------------------------- *)
\* the awaits of a stage's transaction: the transaction that is in flight there
InFlightTx ==
  [ r_unstake |-> "unstake", r_multicall |-> "withdraw", sw_send |-> "swap",
    sw_resend |-> "swap", cp_mint |-> "mint", stake_deposit |-> "deposit" ]

\* the awaits at which a signal is delivered here: between cycles, during the scan, during
\* a wait that never ends, and while a stage's transaction is in flight
AwaitPoints == {"idle", "checkAllPositions", "hung"} \cup DOMAIN InFlightTx

\* SIGINT / SIGTERM: the handler calls stop(), which clears the flag and the timer and calls
\* process.exit(0); what was in memory is gone, a transaction in flight stays submitted
Stop ==
  /\ isRunning
  /\ pc \in AwaitPoints
  /\ isRunning' = FALSE
  /\ checkInterval' = FALSE
  /\ pc' = "exited"
  /\ isCheckInProgress' = FALSE
  /\ pendingRebalance' = NULL
  /\ txlog' = IF pc \in DOMAIN InFlightTx
                THEN << Sent(InFlightTx[pc], "in_flight") >> ELSE << >>
  /\ caller' = "none"
  /\ positions' = << >>
  /\ idx' = 0
  /\ cur' = NULL
  /\ newRange' = NULL
  /\ amount0' = 0 /\ amount1' = 0 /\ amount0ToAdd' = 0 /\ amount1ToAdd' = 0
  /\ walletRead' = << 0, 0 >>
  /\ ratio' = NoRatio
  /\ swapIn' = NoSwap
  /\ swapResult' = "null"
  /\ newTokenId' = 0
  /\ stages' = << >>
  /\ invoked' = {}
  /\ attempts' = << >>
  /\ outcome' = "none"
  /\ UNCHANGED << sideVars, autoRebalance >>

Next ==
  \/ TimerFires \/ RunCheckCycle \/ CheckAllPositions \/ CheckAllPositionsMisses
  \/ CheckAllPositionsFails
  \/ CheckAllPositionsTickUnread
  \/ AutoStakeLoop \/ Dispatch \/ RebalanceLoop \/ CycleEnd
  \/ RebalanceBegin \/ RebalanceStarted \/ UnstakeFromGauge \/ Multicall
  \/ ReadBalances \/ ReadFails \/ ComputeRatio \/ SwapPlan \/ SwapPlanInRange
  \/ AfterSwap \/ ReadNewBalances
  \/ SwapTokensEnter \/ SwapQuote \/ SwapApproveToken \/ SwapApprovePermit2
  \/ SwapSend \/ SwapResend
  \/ CreatePositionPool \/ CreatePositionApprove0 \/ CreatePositionApprove1
  \/ CreatePositionStaticCall \/ CreatePositionMint \/ AfterMint
  \/ StakeGetApproved \/ StakeApprove \/ StakeDeposit
  \/ RebalanceDone \/ RebalanceThrow
  \/ BootstrapBalances \/ BootstrapFails \/ BootstrapRange \/ BootstrapPlan
  \/ BootstrapAfterSwap \/ BootstrapNewBalances \/ BootstrapAfterMint
  \/ Stop

Spec == Init /\ [][Next]_vars

(* ================== the aggregator swapTokens (Kyber) =================== *)
\* router addresses as the aggregator's endpoints and the configuration spell them; the
\* first two are one address in different letter case
RouterAddresses == {"0xAaA1", "0xaaa1", "0xbbb2", "0xccc3"}

\* values of KYBER_ALLOWED_ROUTERS: empty (no allowlist), or lists of addresses
AllowLists == {{}, {"0xAaA1"}, {"0xaaa1", "0xbbb2"}}

\* String.prototype.toLowerCase on a router address
toLowerCase(address) == IF address = "0xAaA1" THEN "0xaaa1" ELSE address

\* messages of the errors the requests, the approval and the sends throw
ThrownMessages ==
  { "Call failed", "Return amount is not enough", "TransferHelper: TRANSFER_FROM_FAILED",
    "insufficient funds" }
RouterMismatchMessage == "Kyber router mismatch between route and build"
NonAllowlistedMessage == "Kyber returned non-allowlisted router"

\* a retry test that passes for every error
retryableAnyError(message) == TRUE

\* swapTokens lines 706-709: the test of the attempt's error message
retryableRouteError(message) ==
  message \in { "Call failed", "Return amount is not enough",
                "TransferHelper: TRANSFER_FROM_FAILED" }

\* a comparison of the two routers that never finds a difference
routerMismatchIgnored(routeRouter, builtRouter) == FALSE

\* runSwapAttempt lines 666-668: the routers of the two endpoints differ
routerMismatch(routeRouter, builtRouter) ==
  toLowerCase(routeRouter) # toLowerCase(builtRouter)

\* a validation that lets every router pass
validateKyberRouterOff(routerAddress) == TRUE

\* validateKyberRouter: TRUE when it returns, FALSE when it throws
validateKyberRouter(routerAddress) ==
  \/ allowedRouters = {}
  \/ \E allowed \in allowedRouters : toLowerCase(allowed) = toLowerCase(routerAddress)

\* a request or a transaction of the running attempt; to is the router it names
KEntry(kind, to) == [ attempt |-> attempt, kind |-> kind, to |-> to ]

\* runSwapAttempt throws: the catch of lines 705-717 starts the second attempt when the
\* first one's error is retryable, else the outer catch of 718-724 returns null
Throw(message) ==
  /\ attemptErrors' = Append(attemptErrors, message)
  /\ routeData' = NoAddress /\ builtSwap' = NoAddress
  /\ IF attempt = 1 /\ retryableRouteError(message)
       THEN attempt' = 2 /\ k_pc' = "route" /\ UNCHANGED receipt
       ELSE k_pc' = "returned" /\ receipt' = "null" /\ UNCHANGED attempt

\* swapTokens lines 644-654 and the first call of runSwapAttempt
KyberSwapTokens ==
  /\ k_pc \in {"idle", "returned"}
  /\ \E amountIn \in Amounts :
       IF amountIn = 0
         THEN k_pc' = "returned" /\ receipt' = "null" /\ attempt' = 0
         ELSE k_pc' = "route" /\ receipt' = "none" /\ attempt' = 1
  /\ klog' = << >> /\ attemptErrors' = << >>
  /\ routeData' = NoAddress /\ builtSwap' = NoAddress
  /\ UNCHANGED << calcVars, chainVars, botVars, allowedRouters >>

\* runSwapAttempt line 656: getKyberRoute answers with a router, or throws
GetKyberRoute ==
  /\ k_pc = "route"
  /\ \/ \E router \in RouterAddresses :
          /\ routeData' = router
          /\ klog' = Append(klog, KEntry("route", router))
          /\ k_pc' = "build"
          /\ UNCHANGED << attempt, builtSwap, receipt, attemptErrors >>
     \/ \E message \in ThrownMessages :
          /\ klog' = Append(klog, KEntry("route", NoAddress))
          /\ Throw(message)
  /\ UNCHANGED << calcVars, chainVars, botVars, allowedRouters >>

\* runSwapAttempt lines 661-670: buildKyberRoute answers with a router, or throws; the
\* mismatch test and validateKyberRouter follow
BuildKyberRoute ==
  /\ k_pc = "build"
  /\ \/ \E router \in RouterAddresses :
          /\ klog' = Append(klog, KEntry("build", router))
          /\ IF routerMismatch(routeData, router)
               THEN Throw(RouterMismatchMessage)
               ELSE IF ~validateKyberRouter(router)
                 THEN Throw(NonAllowlistedMessage)
                 ELSE /\ builtSwap' = router
                      /\ k_pc' = "approve"
                      /\ UNCHANGED << attempt, routeData, receipt, attemptErrors >>
     \/ \E message \in ThrownMessages :
          /\ klog' = Append(klog, KEntry("build", NoAddress))
          /\ Throw(message)
  /\ UNCHANGED << calcVars, chainVars, botVars, allowedRouters >>

\* runSwapAttempt line 672: approveToken(tokenIn, builtSwap.routerAddress)
KyberApprove ==
  /\ k_pc = "approve"
  /\ \E case \in ApprovalCases :
       IF case = "failed"
         THEN /\ klog' = Append(klog, KEntry("approve", builtSwap))
              /\ \E message \in ThrownMessages : Throw(message)
         ELSE /\ klog' = IF case = "approved"
                           THEN Append(klog, KEntry("approve", builtSwap)) ELSE klog
              /\ k_pc' = "send"
              /\ UNCHANGED << attempt, routeData, builtSwap, receipt, attemptErrors >>
  /\ UNCHANGED << calcVars, chainVars, botVars, allowedRouters >>

\* runSwapAttempt lines 675-685: the swap is sent to builtSwap.routerAddress
KyberSend ==
  /\ k_pc = "send"
  /\ klog' = Append(klog, KEntry("swap", builtSwap))
  /\ \E result \in SendResults :
       CASE result = "confirmed" ->
              /\ receipt' = "receipt" /\ k_pc' = "returned"
              /\ UNCHANGED << attempt, routeData, builtSwap, attemptErrors >>
         [] result = "NONCE_EXPIRED" ->
              /\ k_pc' = "resend"
              /\ UNCHANGED << attempt, routeData, builtSwap, receipt, attemptErrors >>
         [] OTHER -> \E message \in ThrownMessages : Throw(message)
  /\ UNCHANGED << calcVars, chainVars, botVars, allowedRouters >>

\* runSwapAttempt lines 693-697: the one resend after NONCE_EXPIRED
KyberResend ==
  /\ k_pc = "resend"
  /\ klog' = Append(klog, KEntry("swap", builtSwap))
  /\ \/ /\ receipt' = "receipt" /\ k_pc' = "returned"
        /\ UNCHANGED << attempt, routeData, builtSwap, attemptErrors >>
     \/ \E message \in ThrownMessages : Throw(message)
  /\ UNCHANGED << calcVars, chainVars, botVars, allowedRouters >>

KyberNext ==
  \/ KyberSwapTokens
  \/ GetKyberRoute
  \/ BuildKyberRoute
  \/ KyberApprove
  \/ KyberSend
  \/ KyberResend

\* a bot whose rebalancer swaps through the aggregator, with one of the allowlists
KyberInit ==
  /\ InitBot
  /\ ~autoRebalance
  /\ allowedRouters \in AllowLists
  /\ KyberIdle
  /\ CalcIdle
  /\ ChainIdle

KyberSpec == KyberInit /\ [][KyberNext]_vars

(* ================= functions, each called on its own ================== *)
\* ticks of a pool of tickSpacing 60 around -196320, and ticks around 0
CalcTicks == {-196800, -196440, -196320, -196200, -195000, -194400, -100, -1, 0, 1, 45, 100}
CalcTickSpacings == {1, 10, 60, 100}

\* RANGE_MULTIPLIER as a rational: the configured 2.6, and 1
RangeMultipliers == {<< 26, 10 >>, << 1, 1 >>}

\* PositionMonitor.calculateNewRange is called
CalcNewRange ==
  /\ \E currentTick \in CalcTicks, tickSpacing \in CalcTickSpacings, m \in RangeMultipliers :
       /\ called' = "calculateNewRange"
       /\ args' = << currentTick, tickSpacing, m[1], m[2] >>
       /\ ret' = calculateNewRange(currentTick, tickSpacing, m[1], m[2])
  /\ UNCHANGED << botVars, kyberVars, chainVars >>

\* how far from a range the pool's tick is taken
MaxTickDistance == 5000

\* the ranges of minted positions
CalcRanges == { << 0, 100 >>, << -195000, -194400 >>, << -196440, -196200 >>, << -100, 0 >> }

\* PositionMonitor.checkPositionStatus is called, the pool's tick being one near the range
CalcPositionStatus ==
  /\ \E range \in CalcRanges, currentTick \in CalcTicks :
       /\ Abs(currentTick - range[1]) <= MaxTickDistance
       /\ called' = "checkPositionStatus"
       /\ args' = << range[1], range[2], currentTick >>
       /\ ret' = checkPositionStatus([ tickLower |-> range[1], tickUpper |-> range[2] ],
                                      currentTick)
  /\ UNCHANGED << botVars, kyberVars, chainVars >>

\* Rebalancer.calculateOptimalRatio is called for a target range, slot0 showing a tick
CalcOptimalRatio ==
  /\ \E range \in CalcRanges, currentTick \in CalcTicks, fraction \in RatioPercents :
       /\ called' = "calculateOptimalRatio"
       /\ args' = << currentTick, range[1], range[2] >>
       /\ ret' = calculateOptimalRatio(currentTick, range[1], range[2], fraction)
  /\ UNCHANGED << botVars, kyberVars, chainVars >>

\* fees are counted in units of 10^6 wei, the default priority fee; one gwei is 1000 units
Gwei == 1000

\* config.js line 15: parseInt(process.env.MAX_GAS_PRICE) || 100, for a variable set to a
\* number of gwei: 0 is falsy and gives the default
configMaxGasPrice(env) == IF env = 0 THEN 100 ELSE env

\* config.js line 16 with PRIORITY_FEE_GWEI unset, parsed at line 396: 0.001 gwei
priorityFee == 1

\* Web3Manager.getGasPrice lines 387-419; feeData is what provider.getFeeData() answers
getGasPrice(baseFee, maxGasPrice, gasStrategy, feeData) ==
  IF gasStrategy = "legacy"
    THEN feeData
    ELSE LET uncapped == baseFee + priorityFee
             maxGwei == maxGasPrice * Gwei
             maxFeePerGas == IF uncapped > maxGwei THEN maxGwei ELSE uncapped
         IN [ maxFeePerGas |-> maxFeePerGas,
              maxPriorityFeePerGas |-> IF priorityFee > maxFeePerGas THEN maxFeePerGas
                                                                 ELSE priorityFee ]

\* base fees of the latest block, values of MAX_GAS_PRICE (gwei) and GAS_STRATEGY
BaseFees == {0, 1, 999, 1000, 99999, 100000, 2000000, 1000000000}
MaxGasPrices == {0, 1, 100, 2000, 1000000}
GasStrategies == {"auto", "legacy"}
\* the fee data of ethers for a base fee: twice the base fee plus the node's tip of 1 gwei
FeeData(baseFee) ==
  [ maxFeePerGas |-> 2 * baseFee + Gwei, maxPriorityFeePerGas |-> Gwei ]

\* getGasPrice is called, as sendTransaction does at line 438
CalcGasPrice ==
  /\ \E baseFee \in BaseFees, env \in MaxGasPrices, gasStrategy \in GasStrategies :
       /\ called' = "getGasPrice"
       /\ args' = << baseFee, env, gasStrategy >>
       /\ ret' = getGasPrice(baseFee, configMaxGasPrice(env), gasStrategy, FeeData(baseFee))
  /\ UNCHANGED << botVars, kyberVars, chainVars >>

\* the division of BigInt: towards zero
TruncDiv(a, b) == IF a >= 0 THEN a \div b ELSE -((-a) \div b)
\* config.slippageBps of a SLIPPAGE_BPS setting: 0 (and an unset one) read as 300
configSlippageBps(env) == IF env = 0 THEN 300 ELSE env
\* as it would be if the slippage were added to the amount instead of taken off it
minAmountAdded(amount, slippageBps) == TruncDiv(amount * (10000 + slippageBps), 10000)
\* the minimum of swapTokens (amountOutMinimum) and createPosition (amount0Min, amount1Min)
minAmount(amount, slippageBps) == TruncDiv(amount * (10000 - slippageBps), 10000)

\* raw amounts (a quote, a balance) and settings of SLIPPAGE_BPS
RawAmounts == {0, 1, 3, 33, 9999, 10000, 100000}
SlippageSettings == {0, 1, 300, 5000, 9999, 10000, 10500}

\* a minimum is computed, as swapTokens does at line 533 and createPosition at 674-675
CalcMinAmount ==
  /\ \E amount \in RawAmounts, env \in SlippageSettings :
       /\ called' = "minAmount"
       /\ args' = << amount, configSlippageBps(env) >>
       /\ ret' = [ amountMin |-> minAmount(amount, configSlippageBps(env)) ]
  /\ UNCHANGED << botVars, kyberVars, chainVars >>

(* raw amounts beyond 2^53, where a double no longer holds every integer: a number is kept
   as hi * 2^27 + lo *)
Limb == 2^27
Wide(hi, lo) == [ hi |-> hi + lo \div Limb, lo |-> lo % Limb ]
WideAdd(a, b) == Wide(a.hi + b.hi, a.lo + b.lo)
\* a - b for a >= b
WideSub(a, b) ==
  IF a.lo >= b.lo THEN [ hi |-> a.hi - b.hi, lo |-> a.lo - b.lo ]
                  ELSE [ hi |-> a.hi - b.hi - 1, lo |-> a.lo + Limb - b.lo ]
WideLess(a, b) == a.hi < b.hi \/ (a.hi = b.hi /\ a.lo < b.lo)
\* half of an even number
WideHalf(a) == [ hi |-> a.hi \div 2, lo |-> (a.hi % 2) * (Limb \div 2) + a.lo \div 2 ]

\* the double nearest to an integer below 2^54: exact below 2^53; from 2^53 on the doubles
\* are the even integers, and a tie goes to the one with the even mantissa
ToDouble(a) ==
  IF a.hi < 2^26 \/ a.lo % 2 = 0 THEN a
  ELSE IF a.lo % 4 = 1 THEN Wide(a.hi, a.lo - 1)
  ELSE Wide(a.hi, a.lo + 1)

\* the swap of the in-range plan (rebalance lines 354-409, bootstrap lines 237-291) for two
\* tokens without decimals at tick 0, where price0InToken1 is 1: Number(formatUnits(amount)),
\* the target value, the difference, toFixed(0) and parseUnits; token0Ratio is 0 (the tick
\* is tickUpper) or one half, in percent
inRangeSwapWei(balance0, balance1, token0Ratio) ==
  LET amount0InToken1 == ToDouble(balance0)
      amount1InToken1 == ToDouble(balance1)
      totalInToken1 == ToDouble(WideAdd(amount0InToken1, amount1InToken1))
      targetToken0InToken1 == IF token0Ratio = 0 THEN Wide(0, 0) ELSE WideHalf(totalInToken1)
      tooMuchToken0 == WideLess(targetToken0InToken1, amount0InToken1)
      absDiff == IF tooMuchToken0
                   THEN ToDouble(WideSub(amount0InToken1, targetToken0InToken1))
                   ELSE ToDouble(WideSub(targetToken0InToken1, amount0InToken1))
  IN IF WideLess(Wide(0, MinSwapValueUsdc), absDiff)
       THEN [ tokenIn |-> IF tooMuchToken0 THEN "token0" ELSE "token1", amountIn |-> absDiff ]
       ELSE [ tokenIn |-> "none", amountIn |-> Wide(0, 0) ]

\* balances of token0 around 2^53 raw units, and small ones
WideAmounts == { Wide(0, 0), Wide(0, 50) } \cup { Wide(2^26, k) : k \in 0..7 }
SmallAmounts == { Wide(0, 0), Wide(0, 50) }

\* the in-range plan is computed for the balances of a wallet
CalcInRangeSwap ==
  /\ \E balance0 \in WideAmounts, balance1 \in SmallAmounts, token0Ratio \in {0, 50} :
       /\ called' = "inRangeSwap"
       /\ args' = << balance0, balance1, token0Ratio >>
       /\ ret' = inRangeSwapWei(balance0, balance1, token0Ratio)
  /\ UNCHANGED << botVars, kyberVars, chainVars >>

CalcNext ==
  \/ CalcNewRange
  \/ CalcOptimalRatio
  \/ CalcPositionStatus
  \/ CalcGasPrice
  \/ CalcMinAmount
  \/ CalcInRangeSwap

\* the functions are called in any order, with any of the arguments
CalcInit ==
  /\ InitBot
  /\ ~autoRebalance
  /\ allowedRouters = {}
  /\ KyberIdle
  /\ CalcIdle
  /\ ChainIdle

CalcSpec == CalcInit /\ [][CalcNext]_vars

(* ======= consecutive check cycles over a chain that is followed ========= *)
\* the positions the chain can hold
ChainPositions == { ChainPosition(in) : in \in PositionInputs }
\* the wallet holds at least one position: no bootstrap
ChainStates == UNION { [1..n -> ChainPositions] : n \in 1..MaxPositions }

\* somebody else changes the chain between two cycles: ticks move, positions come and go
ChainChange ==
  /\ pc = "idle"
  /\ chain' \in ChainStates /\ chain' # chain
  /\ scans' = 0
  /\ UNCHANGED << botVars, kyberVars, calcVars >>

\* checkAllPositions reads the positions the chain holds
ChainScan ==
  /\ pc = "checkAllPositions"
  /\ positions' = [i \in 1..Len(chain) |-> PositionResult(chain[i], i)]
  /\ idx' = 1
  /\ pc' = "autoStake"
  /\ scans' = IF scans < 2 THEN scans + 1 ELSE scans
  /\ UNCHANGED << kyberVars, calcVars, chain, cfgVars, isCheckInProgress, checkInterval,
                  caller, pendingRebalance, cur, newRange, rebVars, subVars, txlog, stages,
                  invoked, attempts, outcome >>

\* stakeToGauge ended for the position it was called for
StakeEnded(how) == [chain EXCEPT ![cur.tokenId].lastStake = how]

\* stakeToGauge lines 810-811: pm.getApproved(tokenId)
ChainGetApproved ==
  /\ pc = "stake_getApproved"
  /\ \E result \in {"approved", "not_approved", "fails"} :
       IF result = "fails"
         THEN /\ pc' = StakeReturn /\ idx' = StakeReturnIdx
              /\ chain' = StakeEnded("failed")
         ELSE /\ pc' = IF result = "approved" THEN "stake_deposit" ELSE "stake_approve"
              /\ UNCHANGED << idx, chain >>
  /\ UNCHANGED << kyberVars, calcVars, scans, cfgVars, cycVars, caller, pendingRebalance,
                  cur, newRange, rebVars, subVars, txlog, stages, outcome >>

\* stakeToGauge lines 813-816: pm.approve(gauge, tokenId)
ChainApprove ==
  /\ pc = "stake_approve"
  /\ \E confirmed \in BOOLEAN :
       /\ txlog' = Append(txlog, Tx("approve_nft", confirmed))
       /\ IF confirmed
            THEN pc' = "stake_deposit" /\ UNCHANGED << idx, chain >>
            ELSE /\ pc' = StakeReturn /\ idx' = StakeReturnIdx
                 /\ chain' = StakeEnded("failed")
  /\ UNCHANGED << kyberVars, calcVars, scans, cfgVars, cycVars, caller, pendingRebalance,
                  cur, newRange, rebVars, subVars, stages, outcome >>

\* stakeToGauge lines 825-829: gauge.deposit(tokenId); confirmed, the position is staked
ChainDeposit ==
  /\ pc = "stake_deposit"
  /\ \E result \in WaitResults :
       /\ txlog' = Append(txlog, Sent("deposit", result))
       /\ IF result = "never"
            THEN pc' = "hung" /\ UNCHANGED idx
            ELSE pc' = StakeReturn /\ idx' = StakeReturnIdx
       /\ chain' = IF result = "confirmed"
                     THEN [chain EXCEPT ![cur.tokenId].isStaked = TRUE,
                                        ![cur.tokenId].lastStake = "confirmed"]
                     ELSE StakeEnded("failed")
  /\ UNCHANGED << kyberVars, calcVars, scans, cfgVars, cycVars, caller, pendingRebalance,
                  cur, newRange, rebVars, subVars, stages, outcome >>

ChainNext ==
  \/ TimerFires
  \/ RunCheckCycle
  \/ ChainScan
  \/ CheckAllPositionsFails
  \/ AutoStakeLoop
  \/ ChainGetApproved
  \/ ChainApprove
  \/ ChainDeposit
  \/ Dispatch
  \/ CycleEnd
  \/ ChainChange

\* AUTO_REBALANCE is off: the cycles only scan and auto-stake
ChainInit ==
  /\ InitBot
  /\ ~autoRebalance
  /\ allowedRouters = {}
  /\ KyberIdle
  /\ CalcIdle
  /\ chain \in ChainStates
  /\ scans = 0

ChainSpec == ChainInit /\ [][ChainNext]_vars



(* ===================== properties of the rebalance ====================== *)
\* what the properties read of the history
LogLen == Len(txlog)
KindAt(i) == txlog[i].kind
\* entry i ended with an error (a wait that never ends is no failure)
Failed(i) == ~txlog[i].confirmed /\ txlog[i].error # "never"
LastKindIs(kind) == LogLen > 0 /\ KindAt(LogLen) = kind
\* the log is that of a rebalance: every entry was submitted by rebalance()
InRebalance == caller = "rebalance" /\ \A i \in 1..LogLen : txlog[i].by = "rebalance"
DescriptorStage == IF pendingRebalance = NULL THEN "cleared" ELSE pendingRebalance.stage
\* entry i is the last one its stage has in the log
LastOfItsStage(i) == i = LogLen \/ StageOfTx(KindAt(i + 1)) # StageOfTx(KindAt(i))

\* C1: single-flight: rebalance() is never about to store a new descriptor (lines 179-188)
\* while a descriptor already exists.  The code has no such test, and a descriptor left by
\* a failed rebalance (C9) is overwritten by the next candidate's rebalance.
SingleFlight == pc = "r_begin" => pendingRebalance = NULL

\* the next stage of the fixed order: one rank up, or 'starting' straight to 'withdrawing'
Follows(a, b) ==
  \/ StageRank(b) = StageRank(a) + 1
  \/ a = "starting" /\ b = "withdrawing"

\* the stages a rebalance has assigned start at 'starting' and follow the fixed order
StageOrder ==
  \A i \in 1..Len(stages) :
    IF i = 1 THEN stages[1] = "starting" ELSE Follows(stages[i - 1], stages[i])

\* the descriptor holds the last stage assigned while rebalance() runs, and is cleared
\* after 'staking' when it returns
DescriptorFollowsStages ==
  /\ outcome = "running" =>
       /\ pendingRebalance # NULL
       /\ Len(stages) > 0
       /\ pendingRebalance.stage = stages[Len(stages)]
  /\ outcome = "success" =>
       /\ pendingRebalance = NULL
       /\ stages[Len(stages)] = "staking"

\* 'unstaking' is visited exactly when the position is staked and has a gauge
UnstakingIffStaked ==
  (outcome = "running" /\ Len(stages) >= 2) =>
    (stages[2] = "unstaking" <=> (cur.isStaked /\ cur.gaugeAddress # NoAddress))

\* once the descriptor is past a stage, the last transaction of that stage was confirmed,
\* for every kind of transaction but those in exempt
ConfirmedBeforeNextStage(exempt) ==
  outcome = "running" =>
    \A i \in 1..LogLen :
      ( /\ LastOfItsStage(i)
        /\ StageRank(StageOfTx(KindAt(i))) < StageRank(pendingRebalance.stage)
        /\ KindAt(i) \notin exempt ) => txlog[i].confirmed

\* C2 as the spec states it: the stages follow the fixed order without regress or repeat,
\* 'unstaking' is visited exactly when the position is staked and has a gauge, and every
\* stage is entered only after the previous stage's transaction was confirmed.
StagesInOrderAllConfirmed ==
  /\ StageOrder
  /\ DescriptorFollowsStages
  /\ UnstakingIffStaked
  /\ ConfirmedBeforeNextStage({})

\* C2 amended: the same order, and every stage is entered only after the previous stage's
\* transaction was confirmed, except that 'withdrawing' is entered after the unstake was
\* sent whether or not it was confirmed.
StagesInOrder ==
  /\ StageOrder
  /\ DescriptorFollowsStages
  /\ UnstakingIffStaked
  /\ ConfirmedBeforeNextStage({"unstake"})

\* a rebalance went through all eight stages and was cleared, its unstake unconfirmed
StagesInOrderWitness ==
  /\ outcome = "success"
  /\ pendingRebalance = NULL
  /\ stages = << "starting", "unstaking", "withdrawing", "checking_balances",
                 "calculating_ratio", "swapping", "creating_position", "staking" >>
  /\ KindAt(1) = "unstake" /\ Failed(1)

\* C3: every transaction a rebalance has submitted was submitted with the descriptor at the
\* stage that names it, and the descriptor has never been at an earlier stage than that of
\* a transaction already submitted: at recorded stage X no action of a later stage has
\* happened.
StageSetBeforeTx ==
  (InRebalance /\ outcome \in {"running", "failed"}) =>
    \A i \in 1..LogLen :
      /\ txlog[i].stage = StageOfTx(KindAt(i))
      /\ StageRank(StageOfTx(KindAt(i))) <= StageRank(pendingRebalance.stage)

\* a rebalance has submitted the transaction of each of the five acting stages
StageSetBeforeTxWitness ==
  /\ InRebalance /\ outcome = "running"
  /\ {"unstake", "withdraw", "swap", "mint", "deposit"} \subseteq {KindAt(i) : i \in 1..LogLen}

SwapFailureAborts ==
  InRebalance =>
    \A i \in 1..LogLen :
      (StageOfTx(KindAt(i)) = "swapping" /\ Failed(i) /\ LastOfItsStage(i)) =>
        /\ i = LogLen
        /\ DescriptorStage = "swapping"
        /\ \/ outcome = "running" /\ pc \in {"sw_resend", "r_afterSwap", "r_throw"}
           \/ outcome = "failed"

\* rebalance() has thrown after its swap transaction was not confirmed
SwapFailureWitness ==
  /\ InRebalance /\ outcome = "failed"
  /\ LastKindIs("swap") /\ Failed(LogLen)
  /\ DescriptorStage = "swapping"

\* C6: a rebalance submits at most one mint transaction; a reverted mint static call or a
\* failed mint is the last call of the rebalance (no mint after a reverted static call, no
\* second mint, no stake), the descriptor stays at 'creating_position' and rebalance()
\* throws.
MintFailureFinal ==
  InRebalance =>
    /\ Cardinality({i \in 1..LogLen : KindAt(i) = "mint"}) <= 1
    /\ \A i \in 1..LogLen :
         (KindAt(i) \in {"mint_staticCall", "mint"} /\ Failed(i)) =>
           /\ i = LogLen
           /\ KindAt(i) = "mint_staticCall" => \A j \in 1..LogLen : KindAt(j) # "mint"
           /\ DescriptorStage = "creating_position"
           /\ newTokenId = 0
           /\ \/ outcome = "running" /\ pc \in {"r_afterMint", "r_throw"}
              \/ outcome = "failed"

\* rebalance() has thrown after its one mint transaction failed
MintFailureWitness ==
  /\ InRebalance /\ outcome = "failed"
  /\ LastKindIs("mint") /\ Failed(LogLen)
  /\ Cardinality({i \in 1..LogLen : KindAt(i) = "mint"}) = 1

\* C7: when the NFT approval or the gauge deposit of the 'staking' stage fails, rebalance()
\* still returns success with the tokenId of the minted position and clears the descriptor.
StakeFailureStillDone ==
  InRebalance =>
    \A i \in 1..LogLen :
      (KindAt(i) \in {"approve_nft", "deposit"} /\ Failed(i)) =>
        /\ i = LogLen
        /\ newTokenId # 0
        /\ \/ outcome = "running" /\ pc = "r_done" /\ DescriptorStage = "staking"
           \/ outcome = "success" /\ pendingRebalance = NULL

\* rebalance() has returned success although the gauge deposit failed
StakeFailureWitness ==
  /\ InRebalance /\ outcome = "success"
  /\ LastKindIs("deposit") /\ Failed(LogLen)
  /\ newTokenId # 0
  /\ pendingRebalance = NULL

NoDescriptorAfterRebalance ==
  outcome \in {"success", "failed"} => pendingRebalance = NULL

\* the positions of this cycle's scan that qualify for a rebalance, by what the monitor
\* reports of them (percentOutOfRange is in hundredths of a percent)
Qualifying ==
  { positions[i].tokenId : i \in { j \in 1..Len(positions) :
      /\ autoRebalance
      /\ ~positions[j].isInRange
      /\ positions[j].percentOutOfRange >= RebalanceThreshold * 100 } }

\* C10: rebalance() is invoked only for positions that are out of range by at least
\* REBALANCE_THRESHOLD percent, and only with AUTO_REBALANCE on; when the cycle ends it has
\* been invoked for every such position; with AUTO_REBALANCE off no unstake and no withdraw
\* multicall (decrease, collect, burn) is ever submitted.
RebalanceIffQualifying ==
  /\ invoked \subseteq Qualifying
  /\ pc = "cycleEnd" => invoked = Qualifying
  /\ ~autoRebalance => \A i \in 1..LogLen : KindAt(i) \notin {"unstake", "withdraw"}

\* a cycle ends, with AUTO_REBALANCE on, having invoked rebalance() for a position that is
\* out of range by at least the threshold
RebalanceIffQualifyingWitness ==
  /\ pc = "cycleEnd"
  /\ autoRebalance
  /\ invoked # {}
  /\ \E i \in 1..Len(positions) :
       ~positions[i].isInRange /\ positions[i].tokenId \in invoked

(* ------------------------- target range ------------------------------- *)
\* a tick range a position can be minted with: both ticks on the pool's grid, the lower
\* strictly below the upper
IsTickRange(range, tickSpacing) ==
  /\ range.tickLower % tickSpacing = 0
  /\ range.tickUpper % tickSpacing = 0
  /\ range.tickLower < range.tickUpper

\* C11: no rebalance submits its unstake or its withdraw transaction with a target range that
\* is not a tick range; a range collapsed to zero width is refused before the state machine
\* starts.
RangeRefusedBeforeStart ==
  (caller = "rebalance" /\ \E i \in 1..LogLen : KindAt(i) \in {"unstake", "withdraw"})
    => IsTickRange(newRange, cur.tickSpacing)

\* C20: for every currentTick and tickSpacing calculateNewRange is applied to, its result
\* has both ticks on the grid, tickLower < tickUpper, the current tick inside, and both ticks
\* within the tick bounds of the pool.
NewRangeIsTickRange ==
  pc = "r_begin" =>
    /\ IsTickRange(newRange, cur.tickSpacing)
    /\ newRange.tickLower <= cur.currentTick
    /\ cur.currentTick <= newRange.tickUpper
    /\ newRange.tickLower >= -887272
    /\ newRange.tickUpper <= 887272

(* ------------------------- expired nonce ------------------------------ *)
\* the transactions the stages unstaking, withdrawing, swapping, minting and staking submit
StageTxKinds == {"unstake", "withdraw", "swap", "mint", "deposit"}

\* entry i is the first submit of a stage's transaction and was refused with NONCE_EXPIRED
FirstSubmitNonceExpired(i) ==
  /\ txlog[i].by = "rebalance"
  /\ KindAt(i) \in StageTxKinds
  /\ txlog[i].error = "NONCE_EXPIRED"
  /\ i > 1 => KindAt(i - 1) # KindAt(i)

\* C12: in every transaction-submitting stage of a rebalance, a first submit refused with
\* NONCE_EXPIRED is followed by a resubmission of the same transaction, and the rebalance
\* does not fail on the refusal.
NonceExpiredResubmitted ==
  \A i \in 1..LogLen :
    FirstSubmitNonceExpired(i) =>
      /\ i < LogLen => KindAt(i + 1) = KindAt(i)
      /\ i = LogLen => outcome # "failed"

(* -------------------- aggregator swap: properties --------------------- *)
KLogLen == Len(klog)

\* entry i is a token approval or a swap transaction
SentToRouter(i) == klog[i].kind \in {"approve", "swap"}

\* the routers the two endpoints named in attempt a differ
MismatchIn(a) ==
  \E i \in 1..KLogLen, j \in 1..KLogLen :
    /\ klog[i].attempt = a /\ klog[i].kind = "route"
    /\ klog[j].attempt = a /\ klog[j].kind = "build"
    /\ klog[i].to # NoAddress /\ klog[j].to # NoAddress
    /\ toLowerCase(klog[i].to) # toLowerCase(klog[j].to)

\* the failure kinds after which a swap is quoted again: CallFailed, InsufficientReturn,
\* TransferFromFailed
RetryableKinds ==
  { "Call failed", "Return amount is not enough", "TransferHelper: TRANSFER_FROM_FAILED" }

\* C13: one swapTokens call makes at most two attempts; the second is made only after the
\* first failed with a retryable error and starts with a route request of its own; any other
\* failure ends the call after one attempt, and a failure of the second attempt ends the
\* call with null.
AtMostOneRetry ==
  /\ attempt <= 2
  /\ \A i \in 1..KLogLen : klog[i].attempt \in 1..attempt
  /\ Len(attemptErrors) <= 2
  /\ attempt = 2 => Len(attemptErrors) >= 1 /\ attemptErrors[1] \in RetryableKinds
  /\ \A i \in 1..KLogLen :
       klog[i].attempt = 2 /\ klog[i].kind # "route" =>
         \E j \in 1..(i - 1) : klog[j].attempt = 2 /\ klog[j].kind = "route"
  /\ (Len(attemptErrors) >= 1 /\ attemptErrors[1] \notin RetryableKinds) =>
       attempt = 1 /\ k_pc = "returned" /\ receipt = "null"
  /\ Len(attemptErrors) = 2 => k_pc = "returned" /\ receipt = "null"

\* a call has returned null after two failed attempts, the second of which sent its swap
AtMostOneRetryWitness ==
  /\ k_pc = "returned"
  /\ attempt = 2
  /\ Len(attemptErrors) = 2
  /\ attemptErrors[2] \in RetryableKinds
  /\ \E i \in 1..KLogLen : klog[i].attempt = 2 /\ klog[i].kind = "swap"

\* C14: an attempt in which the build endpoint names a router different from the route
\* endpoint's submits no token approval and no swap transaction.
RouterMismatchAborts ==
  \A i \in 1..KLogLen : SentToRouter(i) => ~MismatchIn(klog[i].attempt)

\* a call has ended on a router mismatch in its first attempt
RouterMismatchWitness ==
  /\ k_pc = "returned"
  /\ receipt = "null"
  /\ MismatchIn(1)
  /\ attemptErrors = << RouterMismatchMessage >>

\* C15: with a non-empty allowlist every token approval and every swap transaction names a
\* router of the allowlist, and an attempt refused for its router is the last of its call.
OnlyAllowlistedRouters ==
  /\ allowedRouters # {} =>
       \A i \in 1..KLogLen :
         SentToRouter(i) =>
           toLowerCase(klog[i].to) \in { toLowerCase(allowed) : allowed \in allowedRouters }
  /\ \A n \in 1..Len(attemptErrors) :
       attemptErrors[n] = NonAllowlistedMessage =>
         /\ n = Len(attemptErrors)
         /\ attempt = n
         /\ k_pc = "returned" /\ receipt = "null"

\* with an allowlist set, a call has been refused for a router outside it, after both
\* endpoints named that router
OnlyAllowlistedRoutersWitness ==
  /\ allowedRouters # {}
  /\ k_pc = "returned"
  /\ attemptErrors # << >>
  /\ attemptErrors[Len(attemptErrors)] = NonAllowlistedMessage
  /\ \E i \in 1..KLogLen :
       /\ klog[i].kind = "build"
       /\ toLowerCase(klog[i].to) \notin { toLowerCase(allowed) : allowed \in allowedRouters }

(* --------------------------- the check loop --------------------------- *)
\* a check cycle is executing: runCheckCycle is past its latch and not yet in its finally
CycleExecuting == pc \notin {"idle", "runCheckCycle", "exited"}

\* C16: the latch isCheckInProgress is set exactly while the one check cycle executes; no
\* next-check timer is pending while a cycle executes or while runCheckCycle is being
\* entered, so a firing runCheckCycle never finds a cycle in progress and the next cycle is
\* scheduled only after the current one has completed.
OneCycleAtATime ==
  /\ isCheckInProgress <=> CycleExecuting
  /\ isCheckInProgress => ~checkInterval
  /\ pc = "runCheckCycle" => ~isCheckInProgress /\ ~checkInterval
  /\ checkInterval => pc = "idle" /\ isRunning

\* a cycle in which a rebalance failed has completed and the next check is scheduled
OneCycleAtATimeWitness ==
  /\ pc = "idle"
  /\ checkInterval
  /\ ~isCheckInProgress
  /\ pendingRebalance # NULL

(* ------------------------- bounded waits ------------------------------ *)
\* C18: no rebalance and no stake waits forever: every receipt wait ends, with a receipt or
\* with an error, even if the chain never answers.
EveryWaitEnds == pc # "hung"

(* ------------------------------ shutdown ------------------------------ *)
\* C19: a signal that arrives while a stage's transaction is in flight only sets the
\* shutdown flag: the process never exits with a stage's transaction still in flight.
NoExitDuringSend ==
  pc = "exited" => \A i \in 1..LogLen : txlog[i].error # "in_flight"

(* --------------------------- the loop goes on -------------------------- *)
\* a step of the bot itself, as the event loop runs it; a signal is no such step
BotStep == Next /\ pc' # "exited"

\* the event loop runs every callback that is ready and every promise that settles
FairSpec == Spec /\ WF_vars(BotStep)

\* C17: whatever fails inside a check cycle, the cycle ends and, while the bot is running,
\* the next cycle is scheduled, so that check cycles begin again and again.
CyclesRecur == []<>(pc = "runCheckCycle" \/ ~isRunning)

\* the same, but for a cycle that waits for a receipt that never comes
CyclesRecurUnlessHung == []<>(pc = "runCheckCycle" \/ ~isRunning \/ pc = "hung")

(* ----------------------- functions: properties ------------------------ *)
\* C21: calculateNewRange(-196320, 60, 2.6) returns tickLower = -196440 and
\* tickUpper = -196200, a range that strictly contains the current tick.
NewRangeExample ==
  (called = "calculateNewRange" /\ args = << -196320, 60, 26, 10 >>) =>
    /\ ret = [ tickLower |-> -196440, tickUpper |-> -196200 ]
    /\ ret.tickLower < -196320 /\ -196320 < ret.tickUpper

\* C23: checkPositionStatus reports a position in range exactly when
\* tickLower <= currentTick < tickUpper, and for a position out of range percentOutOfRange
\* is the distance from the crossed boundary over tickUpper - tickLower, times 100 (here in
\* hundredths of a percent, as toFixed(2) prints it).
InRangeIsHalfOpen ==
  called = "checkPositionStatus" =>
    LET tickLower == args[1]
        tickUpper == args[2]
        currentTick == args[3]
    IN /\ ret.isInRange <=> (tickLower <= currentTick /\ currentTick < tickUpper)
       /\ currentTick < tickLower =>
            ret.percentOutOfRange = ToFixed2Percent(tickLower - currentTick, tickUpper - tickLower)
       /\ currentTick > tickUpper =>
            ret.percentOutOfRange = ToFixed2Percent(currentTick - tickUpper, tickUpper - tickLower)

\* C22: calculateOptimalRatio returns the ratios (1, 0) exactly when currentTick < tickLower
\* and (0, 1) exactly when currentTick > tickUpper; for no other tick is one of the two
\* returned (the ratios are in percent here).
RatioBoundaries ==
  called = "calculateOptimalRatio" =>
    LET currentTick == args[1]
        tickLower == args[2]
        tickUpper == args[3]
    IN /\ (ret.token0Ratio = 100 /\ ret.token1Ratio = 0) <=> currentTick < tickLower
       /\ (ret.token0Ratio = 0 /\ ret.token1Ratio = 100) <=> currentTick > tickUpper

(* ------------------------------- C24 ----------------------------------- *)
\* the await points of swapTokens and the return to rebalance()
SwapPoints == {"sw_enter", "sw_quote", "sw_approveToken", "sw_permit2", "sw_send",
               "sw_resend", "r_afterSwap"}

\* C24: while a swap of the Swapping stage runs with the ratio out of range, it sells all
\* of the wallet's token1 when the tick is below the range and all of its token0 when the
\* tick is above; never the other token, never a part of the balance
OutOfRangeSwapsEverything ==
  (caller = "rebalance" /\ pc \in SwapPoints /\ ratio # NoRatio /\ ~ratio.inRange) =>
     /\ ratio.belowRange =>
          swapIn.tokenIn = "token1" /\ swapIn.amountIn = amount1 /\ amount1 > 0
     /\ ~ratio.belowRange =>
          swapIn.tokenIn = "token0" /\ swapIn.amountIn = amount0 /\ amount0 > 0

\* a swap of all of token1 was confirmed below the range, with token0 in the wallet too
OutOfRangeSwapsEverythingWitness ==
  /\ caller = "rebalance" /\ pc = "r_afterSwap" /\ swapResult = "receipt"
  /\ ratio # NoRatio /\ ~ratio.inRange /\ ratio.belowRange
  /\ amount0 > 0 /\ swapIn = [ tokenIn |-> "token1", amountIn |-> amount1 ]
  /\ txlog[Len(txlog)] = Tx("swap", TRUE)

(* ------------------------------- C25 ----------------------------------- *)
\* the rebalance of the position [-195000, -194400] of the spacing-60 pool shown at -196800
RebalancingBelowRangePosition ==
  /\ caller = "rebalance"
  /\ cur.tickLower = BelowRangePosition.tickLower
  /\ cur.tickUpper = BelowRangePosition.tickUpper
  /\ cur.tickSpacing = BelowRangePosition.tickSpacing
  /\ cur.currentTick = BelowRangePosition.currentTick

\* C25: when the position [-195000, -194400] of a spacing-60 pool is rebalanced with the
\* pool at tick -196800, the Swapping stage plans below the range (all of token1 is
\* swapped into token0 before the mint): the ratio it plans with is never an in-range
\* ratio computed at tick -196800
BelowRangePlanAtScenarioTick ==
  (RebalancingBelowRangePosition /\ pc = "r_plan") =>
     ~(ratio.inRange /\ ratio.currentTick = BelowRangePosition.currentTick)

(* ------------------------------- C26 ----------------------------------- *)
\* the step of the Swapping stage that plans with an in-range ratio and the price of slot0
InRangePlanStep == pc = "r_slot0" /\ pc' \in {"sw_enter", "cp_pool"}

\* C26: with an in-range ratio and D = token0 value - total value * token0Ratio (in token1
\* units, at the price slot0 shows), a swap is started exactly when |D| exceeds
\* MIN_SWAP_VALUE_USDC: of D worth of token0 when D > 0, of -D of token1 when D < 0;
\* otherwise nothing is submitted and createPosition gets the balances as they were read
InRangeSwapsTheDifference ==
  [][ InRangePlanStep =>
        \E price \in Prices :
          LET D100 == 100 * amount0 * price - (amount0 * price + amount1) * ratio.token0Ratio
              exceeds == ratio.token0Ratio # NaN /\ Abs(D100) > 100 * MinSwapValueUsdc
          IN /\ ratio.inRange
             /\ exceeds <=> pc' = "sw_enter"
             /\ (exceeds /\ D100 > 0) =>
                  swapIn' = [ tokenIn |-> "token0", amountIn |-> RoundDiv(D100, 100 * price) ]
             /\ (exceeds /\ D100 < 0) =>
                  swapIn' = [ tokenIn |-> "token1", amountIn |-> RoundDiv(-D100, 100) ]
             /\ ~exceeds =>
                  /\ txlog' = txlog /\ swapIn' = swapIn
                  /\ amount0ToAdd' = amount0 /\ amount1ToAdd' = amount1 ]_vars

\* a swap of the excess token1 was planned in range and its transaction is about to be sent
InRangeSwapsTheDifferenceWitness ==
  /\ caller = "rebalance" /\ pc = "sw_send"
  /\ ratio.inRange /\ ratio.token0Ratio = 80
  /\ amount0 = 0 /\ amount1 = 50
  /\ swapIn = [ tokenIn |-> "token1", amountIn |-> 40 ]

(* ------------------------------- C27 ----------------------------------- *)
\* the await points of stakeToGauge
StakePoints == {"stake_getApproved", "stake_approve", "stake_deposit"}

\* C27: while stakeToGauge runs for the auto-stake loop, its position is in range, not
\* staked, and of the token pair of the gauge it is deposited into
AutoStakeOnlyMatchingPair ==
  (caller = "autoStake" /\ pc \in StakePoints) =>
     /\ cur.isInRange /\ ~cur.isStaked
     /\ cur.gaugeAddress = Gauge
     /\ cur.token0 = GaugeToken0 /\ cur.token1 = GaugeToken1

(* ------------------------------- C28 ----------------------------------- *)
\* stakeToGauge is about to submit a transaction for the auto-stake loop
AutoStakeSubmits == caller = "autoStake" /\ pc \in {"stake_approve", "stake_deposit"}

BootstrapSubmitted ==
  /\ caller = "bootstrap"
  /\ \E i \in 1..Len(txlog) : txlog[i].kind \notin {"quote", "mint_staticCall"}

\* C29: the bootstrap submits transactions only in a cycle at whose scan the account held
\* no position with liquidity, staked or unstaked
BootstrapOnlyWithoutPositions ==
  BootstrapSubmitted => chain = << >>

(* ------------------------------- C30 ----------------------------------- *)
\* C30: every output of getGasPrice has maxPriorityFeePerGas <= maxFeePerGas, and its
\* maxFeePerGas is at most MAX_GAS_PRICE (gwei), for every base fee and every MAX_GAS_PRICE
FeePolicyValid ==
  called = "getGasPrice" =>
    LET MAX_GAS_PRICE == args[2]
    IN /\ ret.maxPriorityFeePerGas <= ret.maxFeePerGas
       /\ ret.maxFeePerGas <= MAX_GAS_PRICE * Gwei


\* C32: for every amount >= 0 and every slippage of 0 to 10000 basis points, the minimum
\* computed for a swap or a mint is at least 0 and at most the amount
MinAmountWithinAmount ==
  (called = "minAmount" /\ args[1] >= 0 /\ args[2] >= 0 /\ args[2] <= 10000)
    => (ret.amountMin >= 0 /\ ret.amountMin <= args[1])
\* a minimum was computed that the division rounded down below the amount less the slippage
MinAmountWithinAmountWitness ==
  called = "minAmount" /\ args = << 33, 300 >> /\ ret.amountMin = 32


\* C33: when swapTokens returns null because the amount to swap is 0, the rebalance counts
\* it as no swap performed and goes on to the mint with the balances as read; it does not fail
ZeroSwapGoesOnToMint ==
  [][ (pc = "r_afterSwap" /\ swapIn.amountIn = 0 /\ swapResult = "null" /\ pc' # pc)
        => (pc' = "cp_pool" /\ amount0ToAdd' = amount0ToAdd /\ amount1ToAdd' = amount1ToAdd) ]_vars


\* C34: a position is classified out of range, and a rebalance of it started, only with a
\* tick that was read from its pool in that cycle: when the tick cannot be read the
\* position is not classified out of range and no rebalance is started
OutOfRangeOnlyByReadTick ==
  /\ \A i \in 1..Len(positions) :
       ~positions[i].isInRange => positions[i].currentTick = chain[i].currentTick
  /\ (caller = "rebalance" /\ pc = "r_begin")
       => cur.currentTick = chain[cur.tokenId].currentTick


\* C35: when the mint transaction of a rebalance is confirmed on chain the rebalance does
\* not end in failure: rebalance() throws only when no mint of its own was confirmed
ConfirmedMintNeverThrows ==
  (caller = "rebalance" /\ pc = "r_throw")
    => ~\E i \in 1..Len(txlog) :
          /\ txlog[i].kind = "mint" /\ txlog[i].confirmed
          /\ txlog[i].by = "rebalance" /\ txlog[i].tokenId = cur.tokenId


\* C36: whenever the in-range plan requests a swap, its amountIn, in raw units of tokenIn,
\* does not exceed the wallet's balance of tokenIn read before the plan was computed
SwapWithinBalance ==
  (called = "inRangeSwap" /\ ret.tokenIn # "none")
    => LET balance == IF ret.tokenIn = "token0" THEN args[1] ELSE args[2]
       IN ret.amountIn.hi < balance.hi
            \/ (ret.amountIn.hi = balance.hi /\ ret.amountIn.lo <= balance.lo)


\* C37: for tickLower < tickUpper and tickLower <= currentTick <= tickUpper, both boundaries
\* included, calculateOptimalRatio returns two well-defined ratios in [0, 1] that sum to 1
\* (in percent: in 0..100, summing to 100); nothing is divided by zero
RatioWellDefinedInRange ==
  (called = "calculateOptimalRatio" /\ args[2] < args[3]
     /\ args[2] <= args[1] /\ args[1] <= args[3])
    => /\ ret.token0Ratio # NaN /\ ret.token1Ratio # NaN
       /\ ret.token0Ratio >= 0 /\ ret.token0Ratio <= 100
       /\ ret.token1Ratio >= 0 /\ ret.token1Ratio <= 100
       /\ ret.token0Ratio + ret.token1Ratio = 100


\* C38: the amounts createPosition passes to the mint as amount0Desired and amount1Desired
\* in a rebalance are the wallet's whole balances of token0 and token1 as the rebalance last
\* read them: after the swap when one was performed, otherwise after the withdraw
MintsBalancesLastRead ==
  (caller = "rebalance"
     /\ pc \in {"cp_pool", "cp_approve0", "cp_approve1", "cp_staticCall", "cp_mint"})
    => << amount0ToAdd, amount1ToAdd >> = walletRead
\* the mint of a rebalance is about to be sent after a confirmed swap, with balances that
\* differ from those read after the withdraw
MintsBalancesLastReadWitness ==
  /\ caller = "rebalance" /\ pc = "cp_mint"
  /\ \E i \in 1..Len(txlog) : txlog[i].kind = "swap" /\ txlog[i].confirmed
  /\ walletRead = << 50, 50 >>
  /\ amount0ToAdd = 50 /\ amount1ToAdd = 50

(* ============ one check cycle over a list of several positions ============ *)
\* how many positions the scan of this specification returns
ListLen == 2

\* the positions of one gauge pool of spacing 10: unstaked in range, and 20% above the
\* range, unstaked or staked
ListInputs ==
  { in \in PositionInputs :
      /\ in.tickSpacing = 10 /\ in.token1 = GaugeToken1
      /\ in.currentTick \in {100, 120} }

\* checkAllPositions resolving with ListLen positions of ListInputs
CheckAllPositionsList ==
  /\ pc = "checkAllPositions"
  /\ \E f \in [1..ListLen -> ListInputs] :
       /\ positions' = [i \in 1..ListLen |-> PositionResult(f[i], i)]
       /\ chain' = [i \in 1..ListLen |-> ChainPosition(f[i])]
  /\ idx' = 1
  /\ pc' = "autoStake"
  /\ UNCHANGED << kyberVars, calcVars, scans, cfgVars, isCheckInProgress, checkInterval,
                  caller, pendingRebalance, cur, newRange, rebVars, subVars, txlog, stages,
                  invoked, attempts, outcome >>

ListNext ==
  \/ TimerFires \/ RunCheckCycle \/ CheckAllPositionsList
  \/ AutoStakeLoop \/ Dispatch \/ RebalanceLoop \/ CycleEnd
  \/ RebalanceBegin \/ RebalanceStarted \/ UnstakeFromGauge \/ Multicall
  \/ ReadBalances \/ ReadFails \/ ComputeRatio \/ SwapPlan \/ SwapPlanInRange
  \/ AfterSwap \/ ReadNewBalances
  \/ SwapTokensEnter \/ SwapQuote \/ SwapApproveToken \/ SwapApprovePermit2
  \/ SwapSend \/ SwapResend
  \/ CreatePositionPool \/ CreatePositionApprove0 \/ CreatePositionApprove1
  \/ CreatePositionStaticCall \/ CreatePositionMint \/ AfterMint
  \/ StakeGetApproved \/ StakeApprove \/ StakeDeposit
  \/ RebalanceDone \/ RebalanceThrow
  \/ Stop

ListSpec == Init /\ [][ListNext]_vars

\* the calls the two loops of checkAndRebalance make for a scan's result when nothing stops
\* them: stakeToGauge for each unstaked in-range position, then, with AUTO_REBALANCE on,
\* rebalance for each candidate, both in the order of the list
StakeAttempts(ps) ==
  [j \in 1..Len(unstakedInRangePositions(ps)) |->
     Attempt("stakeToGauge", ps[unstakedInRangePositions(ps)[j]].tokenId)]
RebalanceAttempts(ps) ==
  [j \in 1..Len(rebalanceCandidates(ps)) |->
     Attempt("rebalance", ps[rebalanceCandidates(ps)[j]].tokenId)]
AllAttempts ==
  StakeAttempts(positions) \o (IF autoRebalance THEN RebalanceAttempts(positions) ELSE << >>)
IsPrefix(a, b) == Len(a) <= Len(b) /\ a = SubSeq(b, 1, Len(a))
StakeAttemptRuns == caller = "autoStake" /\ pc \notin {"autoStake", "dispatch", "cycleEnd", "rebalanceLoop"}
RebalanceAttemptRuns == caller = "rebalance" /\ pc \notin {"rebalanceLoop", "cycleEnd"}

\* C39: within one check cycle the calls made for the positions are, in list order, one
\* stakeToGauge per unstaked in-range position and then one rebalance per candidate, none
\* twice and none skipped; a call begins only after the one before it has ended, whether
\* it succeeded or failed, and a cycle that reaches its end has made all of them
EachPositionOnceInOrder ==
  /\ IsPrefix(attempts, AllAttempts)
  /\ pc = "cycleEnd" => attempts = AllAttempts
  /\ pc = "autoStake" => Len(attempts) = idx - 1
  /\ pc = "rebalanceLoop" =>
       Len(attempts) = Len(StakeAttempts(positions)) + idx - 1
  /\ StakeAttemptRuns =>
       /\ Len(attempts) = idx
       /\ attempts[idx] = Attempt("stakeToGauge", cur.tokenId)
  /\ RebalanceAttemptRuns =>
       /\ Len(attempts) = Len(StakeAttempts(positions)) + idx
       /\ attempts[Len(attempts)] = Attempt("rebalance", cur.tokenId)

\* the rebalance of the first of two candidates has failed and the rebalance of the second
\* has begun
EachPositionOnceInOrderWitness ==
  /\ pc = "r_begin" /\ idx = 2 /\ outcome = "failed"
  /\ attempts = << Attempt("rebalance", 1), Attempt("rebalance", 2) >>
  /\ cur = positions[2]

\* C40: the range Bootstrap computes for the tick and spacing it read is on the
\* tickSpacing grid, has tickLower < tickUpper, holds the tick it was computed from, and
\* is the range calculateNewRange returns for the same tick, spacing and multiplier
BootstrapRangeIsNewRange ==
  (caller = "bootstrap" /\ pc = "b_ratio") =>
    /\ newRange.tickLower % cur.tickSpacing = 0
    /\ newRange.tickUpper % cur.tickSpacing = 0
    /\ newRange.tickLower < newRange.tickUpper
    /\ newRange.tickLower <= cur.currentTick
    /\ cur.currentTick <= newRange.tickUpper
    /\ newRange = calculateNewRange(cur.currentTick, cur.tickSpacing, 26, 10)

====
